---- MODULE Spec2Model ----
(***************************************************************************)
(* Transaction support of azul queries (lib/query/mixins/transaction.js)   *)
(* and the to-many relations of azul models as the relation tests          *)
(* (test/relations) exercise them.                                         *)
(*                                                                         *)
(* Query objects are numbered 1..nq in the order they are built; 0 stands  *)
(* for `undefined` (no transaction, no client, no promise) and, as the     *)
(* source of a builder call, for the unbound entry query of the database.  *)
(* Builder calls (begin, commit, rollback, transaction, select) are        *)
(* synchronous and allocate one new query object; execution of a query is  *)
(* split at its suspend points: the synchronous part of _execute, the      *)
(* settling of the pool's acquisition, the hand-over of the statement to   *)
(* a connection and the completion of the statement.                       *)
(*                                                                         *)
(* A to-many relation is modelled for one owner (`user`) whose helpers     *)
(* addArticle(s), removeArticle(s) and clearArticles() collect in-flight   *)
(* data that save() flushes, and for a set of owners whose collection      *)
(* caches are loaded by fetch(), with() and articleObjects.fetch() and     *)
(* changed by associate()/disassociate() and by the assignment of the      *)
(* belongsTo side (article.author).  The query the owner caches for its    *)
(* related objects (user.articleObjects) is a number, 0 for none.          *)
(*                                                                         *)
(* Transforms of query results (lib/query/mixins/transform.js) are         *)
(* modelled for the queries a chain of transform() calls builds.           *)
(***************************************************************************)
EXTENDS Integers, Sequences, FiniteSets, TLC

\* Number of query objects a behaviour builds when queries are built and
\* executed in any interleaving.
MaxQueries == 3

\* Number of query objects a behaviour builds when every query is executed to
\* its end before the next one is built.
MaxSeqQueries == 4

\* Number of queries that are being executed at the same time.
MaxInFlight == 2

VARIABLES
  nq,        \* number of query objects built so far
  queries,   \* the query objects, their transaction fields and progress
  acquires,  \* the calls of pool.acquireAsync, in call order
  releases,  \* the calls of pool.release, in call order
  closers    \* the queries whose commit()/rollback() took a depth from 1 to 0

\* Number of instances on the related side of the relation (articles,
\* courses) that a behaviour uses.
MaxArticles == 2

\* Number of instances on the owning side of the relation (users, students).
MaxOwners == 2

\* Number of rows the table of related objects (the join of it with the
\* join table, for a relation through a join model) holds.
MaxRows == 2

VARIABLES
  inFlight,     \* relation._getInFlightData(user): clear flag, add, remove
  articles,     \* the related instances: persisted, changed attributes, key
  calls,        \* the helper calls since the last successful save, while
                \* they follow the sequence add(x), remove(x), add(y),
                \* clear(), add(x); Other once they do not
  executedSQL,  \* statements the latest save() issued, grouped in the order
                \* of issue: statements of one group are issued together
  pending,      \* statements of the save in progress that have not settled
  saveState,    \* progress and outcome of the latest save()
  before,       \* the in-flight data when the latest save() started
  previous      \* outcome and statements of the save before the latest one

VARIABLES
  relation,     \* kind of the relation: hasMany, or hasMany through
  table,        \* the rows the database holds for the related objects
  collection,   \* collection cache of the relation on every owner
  inverse,      \* cache of the inverse relation on every related instance
  fetchSQL,     \* statements the latest fetch issued, in order
  spied         \* calls the latest associate/disassociate made, in order

\* Number of relations a relation path names.
MaxPathLen == 2

\* Number of joins of one query.
MaxJoins == 2

\* Number of field references in the conditions and orderings of one query.
MaxRefs == 2

VARIABLES
  primary,      \* the model the query selects
  joins,        \* the joins of the query, in order: relation path and alias
  groupBy,      \* whether the query is grouped by its primary key
  refs,         \* the field references of its conditions and orderings
  compiled      \* the statement of the query, once it was asked for

\* Number of query objects the articleObjects getter of one owner makes.
MaxQueryObjects == 2

VARIABLES
  articleObjects,  \* the query user.articleObjects has cached, 0 for none
  queryObjects     \* number of query objects the getter has made so far

\* Number of queries that transform() builds.
MaxTransformQueries == 3

VARIABLES
  tnq,          \* number of queries built by transform()
  tqueries      \* their transform lists, their progress and their results

txVars == <<nq, queries, acquires, releases, closers>>

saveVars ==
  <<inFlight, articles, calls, executedSQL, pending, saveState, before,
    previous>>

cacheVars == <<relation, table, collection, inverse, fetchSQL, spied>>

joinVars == <<primary, joins, groupBy, refs, compiled>>

queryVars == <<articleObjects, queryObjects>>

transformVars == <<tnq, tqueries>>

relationVars == <<saveVars, cacheVars, joinVars, queryVars, transformVars>>

vars == <<txVars, saveVars, cacheVars, joinVars, queryVars, transformVars>>

Ids == 1..(IF MaxQueries > MaxSeqQueries THEN MaxQueries ELSE MaxSeqQueries)

Overrides == {"none", "begin", "commit", "rollback"}

Errors == {"none", "MustAssociate", "MustBegin", "Closed",
           "AcquireFailed", "StatementFailed", "MustFirstCall"}

\* The classes of query objects: the entry query of the database and the
\* queries it spawns, of which select stands for all.
QueryKinds == {"entry", "select"}

\* A query object as the constructor leaves it: nothing built yet.
NoQuery ==
  [ transactionSQLOverride |-> "none",
    transaction |-> 0,
    transactionDepth |-> 0,
    transactionNeedsToAcquireClient |-> FALSE,
    transactionNeedsToReleaseClient |-> FALSE,
    transactionClosed |-> FALSE,
    transactionClient |-> 0,
    transactionClientPromise |-> 0,
    kind |-> "entry",
    pc |-> "unbuilt",
    waitsOn |-> 0,
    conn |-> -1,
    err |-> "none" ]

\* The transaction of the source of a builder call: the entry query (0) has
\* none, a built query has the one _take copied into it.
TransactionOf(Q, src) == IF src = 0 THEN 0 ELSE Q[src].transaction

\* The class of the source of a builder call.
KindOf(Q, src) == IF src = 0 THEN "entry" ELSE Q[src].kind

\* _dup / _take: a new object of the source's class that carries over the
\* source's _transaction and none of its other transaction fields.
take(Q, new, src) ==
  [Q EXCEPT ![new] = [NoQuery EXCEPT !.transaction = TransactionOf(Q, src),
                                     !.kind = KindOf(Q, src),
                                     !.pc = "built"]]

\* _spawn(SelectQuery, arguments): a new SelectQuery taken from the source.
spawn(Q, new, src) == [take(Q, new, src) EXCEPT ![new].kind = "select"]

\* A variant of _prepareForTransactionClientAcquire that asks for a client on
\* every begin().
prepareForTransactionClientAcquireAlways(Q, i) ==
  LET t == Q[i].transaction
  IN IF t = 0 THEN Q
     ELSE [Q EXCEPT ![t].transactionNeedsToAcquireClient = TRUE,
                    ![t].transactionDepth = @ + 1]

\* _prepareForTransactionClientAcquire on query object i: `!depth` holds of
\* the undefined depth of a fresh object and of depth 0 alike.
prepareForTransactionClientAcquire(Q, i) ==
  LET t  == Q[i].transaction
      Q1 == IF Q[t].transactionDepth = 0
            THEN [Q EXCEPT ![t].transactionDepth = 0,
                           ![t].transactionNeedsToAcquireClient = TRUE]
            ELSE Q
  IN IF t = 0 THEN Q
     ELSE [Q1 EXCEPT ![t].transactionDepth = @ + 1]

\* A variant of _prepareForTransactionClientRelease that compares the depth
\* after the decrement: it closes the transaction one level too early.
prepareForTransactionClientReleaseEarly(Q, i) ==
  LET t  == Q[i].transaction
      Q1 == IF Q[t].transactionDepth - 1 = 1
            THEN [Q EXCEPT ![t].transactionNeedsToReleaseClient = TRUE,
                           ![t].transactionClosed = TRUE]
            ELSE Q
  IN IF t = 0 THEN Q
     ELSE [Q1 EXCEPT ![t].transactionDepth = @ - 1]

\* A variant of _prepareForTransactionClientRelease without the depth test:
\* every commit() and rollback() closes the transaction.
prepareForTransactionClientReleaseAlways(Q, i) ==
  LET t == Q[i].transaction
  IN IF t = 0 THEN Q
     ELSE [Q EXCEPT ![t].transactionNeedsToReleaseClient = TRUE,
                    ![t].transactionClosed = TRUE,
                    ![t].transactionDepth = @ - 1]

\* _prepareForTransactionClientRelease on query object i.
prepareForTransactionClientRelease(Q, i) ==
  LET t  == Q[i].transaction
      Q1 == IF Q[t].transactionDepth = 1
            THEN [Q EXCEPT ![t].transactionNeedsToReleaseClient = TRUE,
                           ![t].transactionClosed = TRUE]
            ELSE Q
  IN IF t = 0 THEN Q
     ELSE [Q1 EXCEPT ![t].transactionDepth = @ - 1]

\* begin() called on src, the result being object new.
begin(Q, new, src) ==
  LET dup  == take(Q, new, src)
      dup1 == [dup EXCEPT ![new].transactionSQLOverride = "begin",
                          ![new].transaction =
                             IF dup[new].transaction # 0
                             THEN dup[new].transaction ELSE new]
  IN prepareForTransactionClientAcquire(dup1, new)

\* commit() called on src.
commit(Q, new, src) ==
  LET dup == take(Q, new, src)
  IN prepareForTransactionClientRelease(
       [dup EXCEPT ![new].transactionSQLOverride = "commit"], new)

\* rollback() called on src.
rollback(Q, new, src) ==
  LET dup == take(Q, new, src)
  IN prepareForTransactionClientRelease(
       [dup EXCEPT ![new].transactionSQLOverride = "rollback"], new)

\* transaction(t) called on src (the setter): the override of src, which
\* _dup does not carry over, is copied by hand.
transaction(Q, new, src, t) ==
  LET sql  == IF src = 0 THEN "none" ELSE Q[src].transactionSQLOverride
      dup  == take(Q, new, src)
      dup1 == [dup EXCEPT ![new].transaction = t,
                          ![new].transactionSQLOverride = sql]
  IN IF sql \in {"rollback", "commit"}
     THEN prepareForTransactionClientRelease(dup1, new)
     ELSE dup1

\* A variant of client() that never looks at the transaction.
clientOfSuper(Q, i) == 0

\* client(): the client of the query's transaction when it has one, else the
\* super's, written 0: the adapter runs the statement on a client of its own.
client(Q, i) ==
  LET t == Q[i].transaction IN
  IF t # 0 /\ Q[t].transactionClient # 0 THEN Q[t].transactionClient ELSE 0

\* A variant of the validation that lets commit and rollback through while
\* the transaction still needs to acquire its client.
validateOverridesPass(Q, i) ==
  LET t   == Q[i].transaction
      sql == Q[i].transactionSQLOverride
  IN IF sql = "begin" THEN "ok"
     ELSE IF t = 0 /\ sql # "none" THEN "MustAssociate"
     ELSE IF t # 0 /\ Q[t].transactionNeedsToAcquireClient /\ sql = "none"
          THEN "MustBegin"
     ELSE IF t # 0 /\ Q[t].transactionClosed /\ sql = "none" THEN "Closed"
     ELSE "ok"

\* A variant of the validation without the test of the closed flag.
validateIgnoresClosed(Q, i) ==
  LET t   == Q[i].transaction
      sql == Q[i].transactionSQLOverride
  IN IF sql = "begin" THEN "ok"
     ELSE IF t = 0 /\ sql # "none" THEN "MustAssociate"
     ELSE IF t # 0 /\ Q[t].transactionNeedsToAcquireClient THEN "MustBegin"
     ELSE "ok"

\* A variant of the validation without the test for a missing transaction.
validateIgnoresMissing(Q, i) ==
  LET t   == Q[i].transaction
      sql == Q[i].transactionSQLOverride
  IN IF sql = "begin" THEN "ok"
     ELSE IF t # 0 /\ Q[t].transactionNeedsToAcquireClient THEN "MustBegin"
     ELSE IF t # 0 /\ Q[t].transactionClosed /\ sql = "none" THEN "Closed"
     ELSE "ok"

\* A variant of the validation that lets regular queries through while the
\* transaction still needs to acquire its client.
validateRegularPass(Q, i) ==
  LET t   == Q[i].transaction
      sql == Q[i].transactionSQLOverride
  IN IF sql = "begin" THEN "ok"
     ELSE IF t = 0 /\ sql # "none" THEN "MustAssociate"
     ELSE IF t # 0 /\ Q[t].transactionNeedsToAcquireClient /\ sql # "none"
          THEN "MustBegin"
     ELSE IF t # 0 /\ Q[t].transactionClosed /\ sql = "none" THEN "Closed"
     ELSE "ok"

\* _validateBeforeTransactionExecution: "ok" or the error it throws.
validateBeforeTransactionExecution(Q, i) ==
  LET t   == Q[i].transaction
      sql == Q[i].transactionSQLOverride
  IN IF sql = "begin" THEN "ok"
     ELSE IF t = 0 /\ sql # "none" THEN "MustAssociate"
     ELSE IF t # 0 /\ Q[t].transactionNeedsToAcquireClient THEN "MustBegin"
     ELSE IF t # 0 /\ Q[t].transactionClosed /\ sql = "none" THEN "Closed"
     ELSE "ok"

\* _afterTransactionExecution of query i: the queries after it, and the
\* releases after it.
afterTransactionExecutionReleases(Q, i) ==
  LET t == Q[i].transaction IN
  t # 0 /\ Q[t].transactionNeedsToReleaseClient

afterTransactionExecution(Q, i) ==
  LET t == Q[i].transaction IN
  IF afterTransactionExecutionReleases(Q, i)
  THEN [Q EXCEPT ![t].transactionClient = 0,
                 ![t].transactionNeedsToReleaseClient = FALSE]
  ELSE Q

\* A variant in which only the query that started acquisition a is settled
\* with it: the queries that picked up the cached promise are left out.
WaitersOnlyTrigger(Q, a) ==
  {i \in Ids : /\ Q[i].pc = "waiting" /\ Q[i].waitsOn = a
               /\ \A j \in Ids :
                     (Q[j].pc = "waiting" /\ Q[j].waitsOn = a) => i <= j}

\* The queries whose _beforeTransactionExecution awaits acquisition a.
Waiters(Q, a) == {i \in Ids : Q[i].pc = "waiting" /\ Q[i].waitsOn = a}

TxInit ==
  /\ nq = 0
  /\ queries = [i \in Ids |-> NoQuery]
  /\ acquires = <<>>
  /\ releases = <<>>
  /\ closers = {}

\* A query object is a transaction handle when begin() bound it to itself.
IsHandle(Q, t) == t \in Ids /\ Q[t].pc # "unbuilt" /\ Q[t].transaction = t

\* A builder call allocates the next query object.
Build(Q) ==
  /\ nq' = nq + 1
  /\ queries' = Q
  /\ closers' = IF \E t \in Ids : /\ queries[t].transactionDepth = 1
                                  /\ Q[t].transactionDepth = 0
                THEN closers \cup {nq + 1} ELSE closers
  /\ UNCHANGED <<acquires, releases>>
  /\ UNCHANGED relationVars

Begin(src) == nq < MaxQueries /\ Build(begin(queries, nq + 1, src))

Commit(src) == nq < MaxQueries /\ Build(commit(queries, nq + 1, src))

Rollback(src) == nq < MaxQueries /\ Build(rollback(queries, nq + 1, src))

\* select(), where(), ... : a duplicate that only carries the transaction.
Select(src) == nq < MaxQueries /\ Build(spawn(queries, nq + 1, src))

\* transaction(t) with t a query returned from begin() on an unbound query.
Transaction(src, t) ==
  /\ nq < MaxQueries
  /\ IsHandle(queries, t)
  /\ Build(transaction(queries, nq + 1, src, t))

\* The queries that execute() was called on and that have not settled.
InFlight(Q) == {i \in Ids : Q[i].pc \in {"waiting", "running"}}

\* _statement of the base query, which the entry query's _statement calls
\* through the transaction mixin: it gives the entry query no statement.
baseStatement == "none"

\* A variant of the mixin's _statement that never looks at the override.
transactionStatementOfSuper(Q, i) == baseStatement

\* _statement of the transaction mixin: the phrasing of the override when the
\* query has one, else the super's.
transactionStatement(Q, i) ==
  IF Q[i].transactionSQLOverride # "none"
  THEN Q[i].transactionSQLOverride
  ELSE baseStatement

\* _statement of query i: the statement it compiles to, or "MustFirstCall"
\* when EntryQuery._statement throws 'Must first call ... on query.'
\* SelectQuery._statement phrases a select.
statement(Q, i) ==
  IF Q[i].kind = "select" THEN "select"
  ELSE IF transactionStatement(Q, i) = "none" THEN "MustFirstCall"
  ELSE transactionStatement(Q, i)

\* .then(this._super): the statement of query i is compiled and handed to
\* the client that client() gives it; a query that does not compile fails.
superExecute(Q, i) ==
  IF statement(Q, i) = "MustFirstCall"
  THEN [Q EXCEPT ![i].pc = "failed", ![i].err = "MustFirstCall"]
  ELSE [Q EXCEPT ![i].pc = "running", ![i].conn = client(Q, i)]

\* execute() of a built query up to its first suspend point: _execute calls
\* _beforeTransactionExecution, which validates and then starts an
\* acquisition or picks up the cached one; a query with nothing to wait for
\* goes on to its statement.
Execute(i) ==
  LET t == queries[i].transaction
      v == validateBeforeTransactionExecution(queries, i)
      p == queries[t].transactionClientPromise
      a == Len(acquires) + 1
  IN
  /\ i \in 1..nq
  /\ queries[i].pc = "built"
  /\ Cardinality(InFlight(queries)) < MaxInFlight
  /\ UNCHANGED <<nq, releases, closers>>
  /\ UNCHANGED relationVars
  /\ IF v # "ok"
     THEN /\ queries' = [queries EXCEPT ![i].pc = "failed", ![i].err = v]
          /\ UNCHANGED acquires
     ELSE IF t = 0
     THEN /\ queries' = superExecute(queries, i)
          /\ UNCHANGED acquires
     ELSE IF queries[t].transactionNeedsToAcquireClient
     THEN /\ acquires' = Append(acquires, [transaction |-> t, state |-> "pending"])
          /\ queries' = [queries EXCEPT
                           ![t].transactionClientPromise = a,
                           ![t].transactionNeedsToAcquireClient = FALSE,
                           ![i].pc = "waiting",
                           ![i].waitsOn = a]
     ELSE /\ UNCHANGED acquires
          /\ IF p = 0 \/ acquires[p].state = "resolved"
             THEN queries' = superExecute([queries EXCEPT ![i].waitsOn = p], i)
             ELSE IF acquires[p].state = "pending"
             THEN queries' = [queries EXCEPT ![i].pc = "waiting", ![i].waitsOn = p]
             ELSE queries' = [queries EXCEPT ![i].pc = "failed", ![i].waitsOn = p,
                                             ![i].err = "AcquireFailed"]

\* The pool fulfils acquisition a with client a: the callback stores the
\* client in the transaction, then every query awaiting a hands its
\* statement to the client that client() gives it.
AcquireResolve(a) ==
  /\ a \in 1..Len(acquires)
  /\ acquires[a].state = "pending"
  /\ acquires' = [acquires EXCEPT ![a].state = "resolved"]
  /\ LET t  == acquires[a].transaction
         Q1 == [queries EXCEPT ![t].transactionClient = a]
     IN queries' = [i \in Ids |->
                      IF i \in Waiters(queries, a)
                      THEN superExecute(Q1, i)[i]
                      ELSE Q1[i]]
  /\ UNCHANGED <<nq, releases, closers>>
  /\ UNCHANGED relationVars

\* The pool rejects acquisition a: every query awaiting it fails.
AcquireReject(a) ==
  /\ a \in 1..Len(acquires)
  /\ acquires[a].state = "pending"
  /\ acquires' = [acquires EXCEPT ![a].state = "rejected"]
  /\ queries' = [i \in Ids |->
                   IF i \in Waiters(queries, a)
                   THEN [queries[i] EXCEPT !.pc = "failed", !.err = "AcquireFailed"]
                   ELSE queries[i]]
  /\ UNCHANGED <<nq, releases, closers>>
  /\ UNCHANGED relationVars

\* The statement of query i completes: .tap runs _afterTransactionExecution.
StatementSucceed(i) ==
  /\ i \in 1..nq
  /\ queries[i].pc = "running"
  /\ queries' = [afterTransactionExecution(queries, i) EXCEPT ![i].pc = "done"]
  /\ releases' = IF afterTransactionExecutionReleases(queries, i)
                 THEN Append(releases,
                        [by |-> i, transaction |-> queries[i].transaction,
                         client |-> queries[queries[i].transaction].transactionClient])
                 ELSE releases
  /\ UNCHANGED <<nq, acquires, closers>>
  /\ UNCHANGED relationVars

\* A variant in which _afterTransactionExecution also runs when the statement
\* fails (.finally in place of .tap).
StatementFailReleases(i) ==
  /\ i \in 1..nq
  /\ queries[i].pc = "running"
  /\ queries' = [afterTransactionExecution(queries, i) EXCEPT
                   ![i].pc = "failed", ![i].err = "StatementFailed"]
  /\ releases' = IF afterTransactionExecutionReleases(queries, i)
                 THEN Append(releases,
                        [by |-> i, transaction |-> queries[i].transaction,
                         client |-> queries[queries[i].transaction].transactionClient])
                 ELSE releases
  /\ UNCHANGED <<nq, acquires, closers>>
  /\ UNCHANGED relationVars

\* The statement of query i fails: .tap is skipped, the query is rejected.
StatementFail(i) ==
  /\ i \in 1..nq
  /\ queries[i].pc = "running"
  /\ queries' = [queries EXCEPT ![i].pc = "failed", ![i].err = "StatementFailed"]
  /\ UNCHANGED <<nq, acquires, releases, closers>>
  /\ UNCHANGED relationVars

(***************************************************************************)
(* In-flight data of a to-many relation and its flush by save().           *)
(* The relation classes (lib/relations) are exercised by the relation      *)
(* tests; `user` is the owner, the related instances are the articles.     *)
(***************************************************************************)

Articles == 1..MaxArticles

Owners == 1..MaxOwners

\* A cache that was never loaded, and a cache holding objs.
NotLoaded == [loaded |-> FALSE, objects |-> <<>>]

Loaded(objs) == [loaded |-> TRUE, objects |-> objs]

\* Elements of a sequence.
Range(s) == {s[k] : k \in DOMAIN s}

\* _.difference(s, S): the elements of s that are not in S, in order.
Without(s, S) ==
  LET keep(e) == e \notin S IN SelectSeq(s, keep)

\* _.union(s, t): s followed by the elements of t that s lacks.
Union(s, t) == s \o Without(t, Range(s))

\* Sequences without repetition over S whose length is at most n.
DistinctSeqs(S, n) ==
  {s \in UNION {[1..k -> S] : k \in 0..n} :
     \A i, j \in DOMAIN s : i # j => s[i] # s[j]}

\* The arguments of addArticles(a, b, ...): distinct articles, by id.
ArticleLists ==
  {s \in DistinctSeqs(Articles, MaxArticles) :
     /\ s # <<>>
     /\ \A i, j \in DOMAIN s : i < j => s[i] < s[j]}

\* The in-flight data of an owner nothing is pending for.
EmptyInFlight == [clear |-> FALSE, add |-> <<>>, remove |-> <<>>]

\* Article.fresh(...): a persisted instance without changes.
FreshArticle == [persisted |-> TRUE, changed |-> FALSE, key |-> FALSE]

\* Article.fresh(...) followed by article.title = 'Renamed'.
UnsavedArticle == [persisted |-> TRUE, changed |-> TRUE, key |-> FALSE]

\* Article.create(...): an instance that was never stored.
CreatedArticle == [persisted |-> FALSE, changed |-> FALSE, key |-> FALSE]

\* instance.dirty: the instance has something a save would store.
dirty(a) == ~a.persisted \/ a.changed \/ a.key

\* The helper calls of the sequence add(x), remove(x), add(y), clear(),
\* add(x) on two different articles.
Scenario(x, y) ==
  <<<<"add", <<x>>>>, <<"remove", <<x>>>>, <<"add", <<y>>>>,
    <<"clear", <<>>>>, <<"add", <<x>>>>>>

\* The helper calls made are not the beginning of that sequence.
Other == <<<<"other", <<>>>>>>

\* The record of the helper calls after one more call.
track(made, call) ==
  LET now == Append(made, call)
  IN IF /\ made # Other
        /\ \E x, y \in Articles :
             /\ x # y
             /\ Len(now) <= Len(Scenario(x, y))
             /\ now = SubSeq(Scenario(x, y), 1, Len(now))
     THEN now
     ELSE Other

\* No save before the latest one (since the last helper call).
NoSave == [result |-> "none", sql |-> {}]

\* addArticles: an object pending removal is no longer removed, any other
\* object is pending addition.
addObjects(data, objs) ==
  LET noLongerRemoved == Range(objs) \cap Range(data.remove)
      stillNeedAdding == Without(objs, noLongerRemoved)
  IN [data EXCEPT !.remove = Without(@, noLongerRemoved),
                  !.add = Union(@, stillNeedAdding)]

removeObjectsRecords(data, objs) ==
  [data EXCEPT !.add = Without(@, Range(objs)),
               !.remove = Union(@, objs)]

\* removeArticles: an object pending addition is no longer added, any other
\* object is pending removal.
removeObjects(data, objs) ==
  LET noLongerAdded == Range(objs) \cap Range(data.add)
      stillNeedRemoving == Without(objs, noLongerAdded)
  IN [data EXCEPT !.add = Without(@, noLongerAdded),
                  !.remove = Union(@, stillNeedRemoving)]

clearObjectsKeepsIntent(data) == [data EXCEPT !.clear = TRUE]

\* clearArticles: everything recorded so far is moot.
clearObjects(data) == [clear |-> TRUE, add |-> <<>>, remove |-> <<>>]

\* UPDATE articles SET author = NULL WHERE author = user.
clearStatement == [dir |-> "clear", via |-> "update", ids |-> <<>>]

\* UPDATE articles SET author = ? WHERE id IN (ids), or WHERE id = ? for one.
batchStatement(dir, ids) == [dir |-> dir, via |-> "update", ids |-> ids]

\* The save of one related instance: an INSERT for a created instance, an
\* UPDATE that carries its changed attributes for an unsaved one.
instanceStatement(dir, a) == [dir |-> dir, via |-> "save", ids |-> <<a>>]

\* A persisted instance whose only change is the foreign key can share an
\* UPDATE with other such instances.
Batchable(arts, a) == arts[a].persisted /\ ~arts[a].changed

flushStatementsUnbatched(data, arts) ==
  {batchStatement("add", <<a>>) :
     a \in {b \in Range(data.add) : Batchable(arts, b)}}
  \cup {batchStatement("remove", <<a>>) :
     a \in {b \in Range(data.remove) : Batchable(arts, b)}}
  \cup {instanceStatement("add", a) :
     a \in {b \in Range(data.add) : ~Batchable(arts, b)}}
  \cup {instanceStatement("remove", a) :
     a \in {b \in Range(data.remove) :
              arts[b].persisted /\ arts[b].changed}}

\* The statements that store the pending additions and removals: one UPDATE
\* for the batchable additions, one for the batchable removals, and the
\* save of every other instance (a created instance that is removed has
\* nothing to store).
flushStatements(data, arts) ==
  LET batchable(a) == Batchable(arts, a)
      adds == SelectSeq(data.add, batchable)
      removes == SelectSeq(data.remove, batchable)
  IN (IF adds # <<>> THEN {batchStatement("add", adds)} ELSE {})
     \cup (IF removes # <<>> THEN {batchStatement("remove", removes)} ELSE {})
     \cup {instanceStatement("add", a) :
             a \in {b \in Range(data.add) : ~batchable(b)}}
     \cup {instanceStatement("remove", a) :
             a \in {b \in Range(data.remove) :
                      arts[b].persisted /\ arts[b].changed}}

\* The instances of a statement after it succeeded: stored and clean.
stored(arts, s) ==
  [a \in Articles |->
     IF a \in Range(s.ids) THEN FreshArticle ELSE arts[a]]

afterSaveAlwaysResets(data, result) == EmptyInFlight

afterSaveNeverResets(data, result) == data

\* The in-flight data is reset when every statement of the save succeeded.
afterSave(data, result) ==
  IF result = "saved" THEN EmptyInFlight ELSE data

QueryInit ==
  /\ articleObjects = 0
  /\ queryObjects = 0

SaveInit ==
  /\ inFlight = EmptyInFlight
  /\ articles = [a \in Articles |-> FreshArticle]
  /\ calls = <<>>
  /\ executedSQL = <<>>
  /\ pending = {}
  /\ saveState = "idle"
  /\ before = EmptyInFlight
  /\ previous = NoSave

\* The owner is not being saved (single writer per instance).
Idle == saveState \in {"idle", "saved", "failed"}

\* The helper calls that have not been flushed.
Unflushed == IF saveState = "saved" THEN <<>> ELSE calls

\* The user of the fixtures (User.fresh({ id: 1 })).
theUser == CHOOSE o \in Owners : \A p \in Owners : o <= p

cacheAfterHelperDeferred(c, op, objs) == c

\* The collection cache of the owner after a helper call: a loaded cache
\* follows the call at once, a cache that is not loaded stays so.
cacheAfterHelper(c, op, objs) ==
  IF ~c.loaded THEN c
  ELSE IF op = "add" THEN Loaded(Union(c.objects, objs))
  ELSE IF op = "remove" THEN Loaded(Without(c.objects, Range(objs)))
  ELSE Loaded(<<>>)

\* The author of article r after a helper call of the owner o: the owner
\* for an added article, nobody for a removed article and for an article
\* of the loaded cache c that is cleared.
slotAfterHelper(slot, c, o, op, objs, r) ==
  IF op = "add" /\ r \in Range(objs) THEN Loaded(<<o>>)
  ELSE IF op = "remove" /\ r \in Range(objs) THEN Loaded(<<>>)
  ELSE IF op = "clear" /\ r \in Range(c.objects) THEN Loaded(<<>>)
  ELSE slot

invalidatedKeeps(q) == q

\* The cached articleObjects query is dropped: the getter makes a new one.
invalidated(q) == 0

\* The cached query after a save: a save that stored relation changes drops
\* it, any other save leaves it.
afterFlush(q, state, log) ==
  IF state = "saved" /\ log # <<>> THEN invalidated(q) ELSE q

\* A helper call records its intent and associates or disassociates its
\* objects, which changes their foreign key.
Helper(op, objs, data) ==
  /\ Idle
  /\ inFlight' = data
  /\ collection' = [collection EXCEPT
                      ![theUser] = cacheAfterHelper(@, op, objs)]
  /\ inverse' = [r \in Articles |->
                   slotAfterHelper(inverse[r], collection[theUser], theUser,
                                   op, objs, r)]
  /\ articleObjects' = invalidated(articleObjects)
  /\ articles' = [a \in Articles |->
                    IF a \in Range(objs)
                    THEN [articles[a] EXCEPT !.key = TRUE]
                    ELSE articles[a]]
  /\ calls' = track(Unflushed, <<op, objs>>)
  /\ saveState' = "idle"
  /\ executedSQL' = <<>>
  /\ pending' = {}
  /\ before' = EmptyInFlight
  /\ previous' = NoSave
  /\ UNCHANGED <<relation, table, fetchSQL, spied, queryObjects,
                 txVars, joinVars, transformVars>>

\* user.addArticle(x)
AddArticle(x) == Helper("add", <<x>>, addObjects(inFlight, <<x>>))

\* user.removeArticle(x)
RemoveArticle(x) == Helper("remove", <<x>>, removeObjects(inFlight, <<x>>))

\* user.clearArticles()
ClearArticles == Helper("clear", <<>>, clearObjects(inFlight))

\* user.addArticles(a, b, ...)
AddArticles(objs) == Helper("add", objs, addObjects(inFlight, objs))

\* user.removeArticles(a, b, ...)
RemoveArticles(objs) == Helper("remove", objs, removeObjects(inFlight, objs))

\* user.createArticle(attrs): Article.create(attrs) followed by
\* user.addArticle of the new instance x, which no collection holds.
CreateArticle(x) ==
  /\ Idle
  /\ x \notin Range(inFlight.add) \cup Range(inFlight.remove)
  /\ x \notin Range(collection[theUser].objects)
  /\ inFlight' = addObjects(inFlight, <<x>>)
  /\ collection' = [collection EXCEPT
                      ![theUser] = cacheAfterHelper(@, "add", <<x>>)]
  /\ inverse' = [inverse EXCEPT ![x] = Loaded(<<theUser>>)]
  /\ articleObjects' = invalidated(articleObjects)
  /\ articles' = [articles EXCEPT ![x] = [CreatedArticle EXCEPT !.key = TRUE]]
  /\ calls' = track(Unflushed, <<"create", <<x>>>>)
  /\ saveState' = "idle"
  /\ executedSQL' = <<>>
  /\ pending' = {}
  /\ before' = EmptyInFlight
  /\ previous' = NoSave
  /\ UNCHANGED <<relation, table, fetchSQL, spied, queryObjects,
                 txVars, joinVars, transformVars>>

\* The getter user.articleObjects: the cached query, or a new query that is
\* cached.
ReadArticleObjects ==
  /\ articleObjects = 0
  /\ queryObjects < MaxQueryObjects
  /\ articleObjects' = queryObjects + 1
  /\ queryObjects' = queryObjects + 1
  /\ UNCHANGED <<txVars, saveVars, cacheVars, joinVars, transformVars>>

\* The save is over: its outcome is known to the caller.
Complete(result, log) ==
  /\ saveState' = result
  /\ pending' = {}
  /\ executedSQL' = log
  /\ inFlight' = afterSave(inFlight, result)

\* The additions and removals are issued together once the clear, if any,
\* succeeded; a save with nothing to store is over at once.
Flush(log, arts) ==
  LET statements == flushStatements(inFlight, arts)
  IN IF statements = {}
     THEN Complete("saved", log)
     ELSE /\ executedSQL' = Append(log, statements)
          /\ pending' = statements
          /\ saveState' = "flushing"
          /\ inFlight' = inFlight

SaveAllAtOnce ==
  /\ Idle
  /\ before' = inFlight
  /\ previous' = IF saveState = "idle"
                 THEN NoSave
                 ELSE [result |-> saveState, sql |-> UNION Range(executedSQL)]
  /\ calls' = Unflushed
  /\ IF inFlight.clear
     THEN LET all == {clearStatement} \cup flushStatements(inFlight, articles)
          IN /\ executedSQL' = <<all>>
             /\ pending' = all
             /\ saveState' = "flushing"
             /\ inFlight' = inFlight
     ELSE Flush(<<>>, articles)
  /\ articleObjects' = afterFlush(articleObjects, saveState', executedSQL')
  /\ UNCHANGED <<articles, queryObjects, txVars, cacheVars, joinVars,
                 transformVars>>

\* user.save() up to its first suspend point.
Save ==
  /\ Idle
  /\ before' = inFlight
  /\ previous' = IF saveState = "idle"
                 THEN NoSave
                 ELSE [result |-> saveState, sql |-> UNION Range(executedSQL)]
  /\ calls' = Unflushed
  /\ IF inFlight.clear
     THEN /\ executedSQL' = <<{clearStatement}>>
          /\ pending' = {clearStatement}
          /\ saveState' = "clearing"
          /\ inFlight' = inFlight
     ELSE Flush(<<>>, articles)
  /\ articleObjects' = afterFlush(articleObjects, saveState', executedSQL')
  /\ UNCHANGED <<articles, queryObjects, txVars, cacheVars, joinVars,
                 transformVars>>

\* Statement s of the save succeeds.
FlushSucceed(s) ==
  /\ s \in pending
  /\ articles' = stored(articles, s)
  /\ IF saveState = "clearing"
     THEN Flush(executedSQL, articles)
     ELSE IF pending = {s}
          THEN Complete(IF saveState = "failing" THEN "failed" ELSE "saved",
                        executedSQL)
          ELSE /\ pending' = pending \ {s}
               /\ UNCHANGED <<saveState, executedSQL, inFlight>>
  /\ articleObjects' = afterFlush(articleObjects, saveState', executedSQL')
  /\ UNCHANGED <<calls, before, previous, queryObjects, txVars, cacheVars,
                 joinVars, transformVars>>

\* Statement s of the save fails.
FlushFail(s) ==
  /\ s \in pending
  /\ IF pending = {s}
     THEN Complete("failed", executedSQL)
     ELSE /\ pending' = pending \ {s}
          /\ saveState' = "failing"
          /\ UNCHANGED <<executedSQL, inFlight>>
  /\ articleObjects' = afterFlush(articleObjects, saveState', executedSQL')
  /\ UNCHANGED <<articles, calls, before, previous, queryObjects, txVars,
                 cacheVars, joinVars, transformVars>>

(***************************************************************************)
(* Collection caches of a to-many relation: loading by fetch, reading,     *)
(* and the in-memory associate/disassociate of the relation.               *)
(* Owners are users (hasMany articles) or students (hasMany courses        *)
(* through enrollments); the related instances are numbered like the       *)
(* articles.                                                               *)
(***************************************************************************)

Kinds == {"hasMany", "through"}

\* The owners a query for owners returns, ordered by id.
OwnerLists ==
  {s \in DistinctSeqs(Owners, MaxOwners) :
     /\ s # <<>>
     /\ \A i, j \in DOMAIN s : i < j => s[i] < s[j]}

\* The tables the database can hold: a row is a related object and the
\* key of its owner.  A hasMany row carries its only owner; a related
\* object reached through a join table has a row for each of its owners.
Tables(kind) ==
  {rows \in DistinctSeqs([id : Articles, key : Owners], MaxRows) :
     kind = "hasMany" =>
       \A i, j \in DOMAIN rows : i # j => rows[i].id # rows[j].id}

\* The rows a query for the related objects of the owners os returns.
rowsOf(rows, os) ==
  LET theirs(row) == row.key \in Range(os) IN SelectSeq(rows, theirs)

\* The related objects of owner o among the rows, in row order.
objectsOf(rows, o) ==
  LET mine(row) == row.key = o
      found == SelectSeq(rows, mine)
  IN [k \in DOMAIN found |-> found[k].id]

\* The owners of related object r among the rows, in row order.
ownersOf(rows, r) ==
  LET mine(row) == row.id = r
      found == SelectSeq(rows, mine)
  IN [k \in DOMAIN found |-> found[k].key]

selectOwners == [table |-> "owners", keys |-> <<>>]

\* SELECT ... WHERE key IN (keys), or WHERE key = ? for one key.
selectRelated(keys) == [table |-> "related", keys |-> keys]

followUpsPerOwner(os) == [k \in DOMAIN os |-> selectRelated(<<os[k]>>)]

\* The statements with('articles') adds to the query for the owners os.
followUps(os) == <<selectRelated(os)>>

collectionAfterLoadWithRows(c, os, rows, o) ==
  IF \E k \in DOMAIN rows : rows[k].key = o
  THEN Loaded(objectsOf(rows, o))
  ELSE IF o \in Range(os) THEN NotLoaded ELSE c[o]

\* The collection cache of owner o after the rows for the owners os have
\* been attached: every owner of os is loaded, with its own rows.
collectionAfterLoad(c, os, rows, o) ==
  IF o \in Range(os) THEN Loaded(objectsOf(rows, o)) ELSE c[o]

inverseAfterLoadBothSides(kind, inv, rows, r) ==
  IF \E k \in DOMAIN rows : rows[k].id = r
  THEN Loaded(ownersOf(rows, r))
  ELSE inv[r]

\* The inverse cache of related object r after a load: a fetched object is
\* a new instance; the belongsTo side of a hasMany is set to the owner, the
\* collection on the other side of a join table is not loaded.
inverseAfterLoad(kind, inv, rows, r) ==
  IF \E k \in DOMAIN rows : rows[k].id = r
  THEN IF kind = "hasMany" THEN Loaded(ownersOf(rows, r)) ELSE NotLoaded
  ELSE inv[r]

readUnchecked(c) == [error |-> "none", value |-> c.objects]

\* The getter of a cache (user.articles, course.students, article.author).
read(c) ==
  IF c.loaded
  THEN [error |-> "none", value |-> c.objects]
  ELSE [error |-> "NotYetLoaded", value |-> <<>>]

associateCallsInverseFirst(kind, op) ==
  IF kind = "hasMany"
  THEN <<[call |-> op, on |-> "inverse"],
         [call |-> "setAttribute", on |-> "related"]>>
  ELSE <<[call |-> op, on |-> "inverse"]>>

associateCallsAsHasMany(kind, op) ==
  <<[call |-> "setAttribute", on |-> "related"],
    [call |-> op, on |-> "inverse"]>>

\* The calls relation.associate(owner, related) and disassociate make on
\* the model instances and on other relations: a hasMany sets the foreign
\* key of the related object and then tells the inverse relation; a
\* hasMany through a join model sets no attribute and leaves the relations
\* it goes through alone.
associateCalls(kind, op) ==
  IF kind = "hasMany"
  THEN <<[call |-> "setAttribute", on |-> "related"],
         [call |-> op, on |-> "inverse"]>>
  ELSE <<[call |-> op, on |-> "inverse"]>>

CacheInit ==
  /\ relation = "hasMany"
  /\ table = <<>>
  /\ collection = [o \in Owners |-> NotLoaded]
  /\ inverse = [r \in Articles |-> NotLoaded]
  /\ fetchSQL = <<>>
  /\ spied = <<>>

\* Owner.objects.fetch(): the instances of the result are new.
Fetch(os) ==
  /\ fetchSQL' = <<selectOwners>>
  /\ collection' = [o \in Owners |->
                      IF o \in Range(os) THEN NotLoaded ELSE collection[o]]
  /\ UNCHANGED <<relation, table, inverse, spied, txVars, saveVars, joinVars,
               queryVars, transformVars>>

\* The rows of a query for related objects are attached to their owners.
Attach(os, rows) ==
  /\ collection' = [o \in Owners |->
                      collectionAfterLoad(collection, os, rows, o)]
  /\ inverse' = [r \in Articles |->
                   inverseAfterLoad(relation, inverse, rows, r)]

\* Owner.objects.with(relation).fetch() finding the owners os.
FetchWith(os) ==
  /\ fetchSQL' = <<selectOwners>> \o followUps(os)
  /\ Attach(os, rowsOf(table, os))
  /\ UNCHANGED <<relation, table, spied, txVars, saveVars, joinVars,
               queryVars, transformVars>>

\* owner.articleObjects.fetch() on the instance o.
FetchCollection(o) ==
  /\ fetchSQL' = <<selectRelated(<<o>>)>>
  /\ Attach(<<o>>, rowsOf(table, <<o>>))
  /\ UNCHANGED <<relation, table, spied, txVars, saveVars, joinVars,
               queryVars, transformVars>>

\* relation.associate(owner, related): loaded caches follow, caches that
\* are not loaded stay so.
Associate(o, r) ==
  /\ spied' = associateCalls(relation, "associate")
  /\ collection' =
       [collection EXCEPT ![o] =
          IF @.loaded THEN Loaded(Union(@.objects, <<r>>)) ELSE @]
  /\ inverse' =
       [inverse EXCEPT ![r] =
          IF relation = "hasMany"
          THEN Loaded(<<o>>)
          ELSE IF @.loaded THEN Loaded(Union(@.objects, <<o>>)) ELSE @]
  /\ UNCHANGED <<relation, table, fetchSQL, txVars, saveVars, joinVars,
               queryVars, transformVars>>

\* relation.disassociate(owner, related)
Disassociate(o, r) ==
  /\ spied' = associateCalls(relation, "disassociate")
  /\ collection' =
       [collection EXCEPT ![o] =
          IF @.loaded THEN Loaded(Without(@.objects, {r})) ELSE @]
  /\ inverse' =
       [inverse EXCEPT ![r] =
          IF relation = "hasMany"
          THEN Loaded(<<>>)
          ELSE IF @.loaded THEN Loaded(Without(@.objects, {o})) ELSE @]
  /\ UNCHANGED <<relation, table, fetchSQL, txVars, saveVars, joinVars,
               queryVars, transformVars>>

\* The calls the belongsTo side of a hasMany (article.authorRelation) makes
\* in associate(article, author) and disassociate: it sets the foreign key
\* of its own instance, the article, and then tells the inverse relation.
associateCallsToOne(op) ==
  <<[call |-> "setAttribute", on |-> "instance"],
    [call |-> op, on |-> "inverse"]>>

\* article.authorRelation.associate(article r, author o)
AssociateAuthor(r, o) ==
  /\ relation = "hasMany"
  /\ spied' = associateCallsToOne("associate")
  /\ inverse' = [inverse EXCEPT ![r] = Loaded(<<o>>)]
  /\ collection' =
       [collection EXCEPT ![o] =
          IF @.loaded THEN Loaded(Union(@.objects, <<r>>)) ELSE @]
  /\ UNCHANGED <<relation, table, fetchSQL, txVars, saveVars, joinVars,
                 queryVars, transformVars>>

\* article.authorRelation.disassociate(article r, author o)
DisassociateAuthor(r, o) ==
  /\ relation = "hasMany"
  /\ spied' = associateCallsToOne("disassociate")
  /\ inverse' = [inverse EXCEPT ![r] = Loaded(<<>>)]
  /\ collection' =
       [collection EXCEPT ![o] =
          IF @.loaded THEN Loaded(Without(@.objects, {r})) ELSE @]
  /\ UNCHANGED <<relation, table, fetchSQL, txVars, saveVars, joinVars,
                 queryVars, transformVars>>

\* The owner the author slot of an article holds, 0 for none.
authorOf(slot) ==
  IF slot.loaded /\ slot.objects # <<>> THEN slot.objects[1] ELSE 0

SetAuthorKeepsOld(r, o) ==
  /\ relation = "hasMany"
  /\ inverse' = [inverse EXCEPT
                   ![r] = Loaded(IF o = 0 THEN <<>> ELSE <<o>>)]
  /\ collection' =
       [p \in Owners |->
          IF collection[p].loaded /\ p = o
          THEN Loaded(Union(collection[p].objects, <<r>>))
          ELSE collection[p]]
  /\ UNCHANGED <<relation, table, fetchSQL, spied, txVars, saveVars, joinVars,
                 queryVars, transformVars>>

\* article.author = o, or article.author = null for o = 0: the article
\* leaves the loaded cache of the author it had and enters the loaded cache
\* of its new author.
SetAuthor(r, o) ==
  /\ relation = "hasMany"
  /\ inverse' = [inverse EXCEPT
                   ![r] = Loaded(IF o = 0 THEN <<>> ELSE <<o>>)]
  /\ collection' =
       [p \in Owners |->
          IF ~collection[p].loaded THEN collection[p]
          ELSE IF p = o THEN Loaded(Union(collection[p].objects, <<r>>))
          ELSE IF p = authorOf(inverse[r])
               THEN Loaded(Without(collection[p].objects, {r}))
          ELSE collection[p]]
  /\ UNCHANGED <<relation, table, fetchSQL, spied, txVars, saveVars, joinVars,
                 queryVars, transformVars>>

\* The instances in memory carry what the database holds.  A fetch makes
\* new instances; instances are named by their id here, so a fetch is
\* followed while it gives the instances that are in memory already.
InSync ==
  \A r \in Articles :
     inverse[r].loaded => inverse[r].objects = ownersOf(table, r)

\* User.objects.with('articles').fetch() of instances as they are stored.
LoadWith(os) == InSync /\ FetchWith(os)

\* author.articleObjects.fetch() of instances as they are stored.
LoadCollection(o) == InSync /\ FetchCollection(o)

(***************************************************************************)
(* Joins of model queries: join(), where() and orderBy() with relation     *)
(* paths, the aliases of the joined tables, the implicit GROUP BY and the  *)
(* resolution of field names, as the join tests of the relations exercise  *)
(* them.  One chain of builder calls is followed: every call gives a new   *)
(* query, whose statement has not been compiled.                           *)
(***************************************************************************)

\* The models queries start from, and all models of the tests.
Models == {"user", "employee", "node"}

AllModels == Models \cup {"article", "blog", "comment"}

\* db.model(name): the table of a model.
tableName ==
  [m \in AllModels |->
     CASE m = "user" -> "users"
       [] m = "employee" -> "employees"
       [] m = "node" -> "nodes"
       [] m = "article" -> "articles"
       [] m = "blog" -> "blogs"
       [] m = "comment" -> "comments"]

\* The relations a model declares.
relationsOf ==
  [m \in AllModels |->
     CASE m = "user" -> {"articles", "blogs"}
       [] m = "article" -> {"comments"}
       [] m = "employee" -> {"manager", "subordinates"}
       [] m = "node" -> {"parent", "nodes"}
       [] OTHER -> {}]

RelationNames == UNION {relationsOf[m] : m \in AllModels}

\* The model a relation leads to.
relatedModel ==
  [r \in RelationNames |->
     CASE r = "articles" -> "article"
       [] r = "blogs" -> "blog"
       [] r = "comments" -> "comment"
       [] r \in {"manager", "subordinates"} -> "employee"
       [] r \in {"parent", "nodes"} -> "node"]

\* hasMany relations; the others are belongsTo relations.
toMany == {"articles", "blogs", "comments", "subordinates", "nodes"}

\* The attributes of a model, by the name of their column.
attrsOf ==
  [m \in AllModels |->
     CASE m = "user" -> {"id", "username"}
       [] m = "article" -> {"id", "title"}
       [] m = "blog" -> {"id", "title"}
       [] m = "comment" -> {"id", "body"}
       [] m = "employee" -> {"id", "name"}
       [] m = "node" -> {"id"}]

FieldNames == UNION {attrsOf[m] : m \in AllModels}

\* The model a relation path that starts at model m leads to.
modelAt(m, p) == IF p = <<>> THEN m ELSE relatedModel[p[Len(p)]]

\* p is a relation path that starts at model m.
isPath(m, p) ==
  /\ Len(p) \in 1..MaxPathLen
  /\ \A k \in 1..Len(p) :
        p[k] \in relationsOf[modelAt(m, SubSeq(p, 1, k - 1))]

\* The relation paths of exactly n segments that start at model m.
RECURSIVE pathsOfLength(_, _)
pathsOfLength(m, n) ==
  IF n = 0 THEN {<<>>}
  ELSE UNION {{Append(p, r) : r \in relationsOf[modelAt(m, p)]} :
                p \in pathsOfLength(m, n - 1)}

\* The relation paths of at most MaxPathLen segments that start at model m.
Paths(m) == UNION {pathsOfLength(m, n) : n \in 1..MaxPathLen}

\* An alias: the name itself when n is 0, else the name followed by _j<n>.
Alias(name, n) == [name |-> name, n |-> n]

takenByJoins(m, J) == {J[k].alias : k \in DOMAIN J}

\* The names in use in the query: its table and the aliases of its joins.
taken(m, J) == {Alias(tableName[m], 0)} \cup {J[k].alias : k \in DOMAIN J}

\* A variant that gives every join the name of its relation.
uniqueAliasBare(name, used) == Alias(name, 0)

\* The alias of a new join of relation `name`: the name of the relation
\* when it is free, else the first of name_j1, name_j2, ... that is.
uniqueAlias(name, used) ==
  Alias(name, CHOOSE n \in 0..Cardinality(used) :
                 /\ Alias(name, n) \notin used
                 /\ \A k \in 0..(n - 1) : Alias(name, k) \in used)

\* The relation path p is joined in J; the empty path is the query's table.
joined(J, p) == p = <<>> \/ \E k \in DOMAIN J : J[k].path = p

\* The joins of a query after the relation path p has been resolved, from
\* its prefix of k segments on: a prefix that is joined is reused, one that
\* is not is joined under a new alias.
RECURSIVE joinRelation(_, _, _, _)
joinRelation(m, J, p, k) ==
  IF k > Len(p) THEN J
  ELSE LET pre == SubSeq(p, 1, k)
           J1  == IF joined(J, pre) THEN J
                  ELSE Append(J, [path  |-> pre,
                                  alias |-> uniqueAlias(p[k], taken(m, J))])
       IN joinRelation(m, J1, p, k + 1)

\* The table a relation path stands for in the statement.
aliasOf(m, J, p) ==
  IF p = <<>> THEN Alias(tableName[m], 0)
  ELSE J[CHOOSE k \in DOMAIN J : J[k].path = p].alias

\* A variant in which only a join of a hasMany relation groups the query.
groupsToManyOnly(g, J, J1) ==
  g \/ \E k \in DOMAIN J1 :
          k > Len(J) /\ J1[k].path[Len(J1[k].path)] \in toMany

\* Whether the query is grouped by its primary key after a condition or an
\* ordering was added that took the joins from J to J1: it is when the
\* condition or ordering joined a relation.
groups(g, J, J1) == g \/ J1 # J

\* The joined tables whose model has attribute f.
candidates(m, J, f) ==
  {J[k].alias : k \in {i \in DOMAIN J : f \in attrsOf[modelAt(m, J[i].path)]}}

\* A variant that looks at the joined tables before the query's own table.
resolveFieldJoinedFirst(m, J, ref) ==
  IF ref.path # <<>>
  THEN [error |-> "none", tables |-> {aliasOf(m, J, ref.path)}]
  ELSE IF Cardinality(candidates(m, J, ref.field)) = 1
  THEN [error |-> "none", tables |-> candidates(m, J, ref.field)]
  ELSE IF Cardinality(candidates(m, J, ref.field)) > 1
  THEN [error |-> "ambiguous", tables |-> candidates(m, J, ref.field)]
  ELSE [error |-> "none", tables |-> {aliasOf(m, J, <<>>)}]

\* The table of a field reference: the table of its relation path when it
\* has one; else the query's table when the model has the attribute; else
\* the joined table that has it, an error naming the tables when several
\* have.
resolveField(m, J, ref) ==
  IF ref.path # <<>>
  THEN [error |-> "none", tables |-> {aliasOf(m, J, ref.path)}]
  ELSE IF ref.field \in attrsOf[m]
  THEN [error |-> "none", tables |-> {aliasOf(m, J, <<>>)}]
  ELSE IF Cardinality(candidates(m, J, ref.field)) > 1
  THEN [error |-> "ambiguous", tables |-> candidates(m, J, ref.field)]
  ELSE [error |-> "none", tables |-> candidates(m, J, ref.field)]

\* A query whose statement has not been asked for.
NotCompiled == [error |-> "unset", field |-> "", tables |-> {}, fields |-> {}]

\* query.statement: the tables of the field references, or the error of a
\* reference that cannot be resolved.
joinStatement(m, J, R) ==
  LET bad == {ref \in R : resolveField(m, J, ref).error # "none"} IN
  IF bad # {}
  THEN LET ref == CHOOSE x \in bad : TRUE IN
       [error |-> resolveField(m, J, ref).error,
        field |-> ref.field,
        tables |-> resolveField(m, J, ref).tables,
        fields |-> {}]
  ELSE [error |-> "none", field |-> "", tables |-> {},
        fields |-> {<<ref, resolveField(m, J, ref).tables>> : ref \in R}]

\* A field reference that a condition or ordering of the query can make: an
\* attribute of the model a relation path leads to, or a bare attribute of
\* the query's model or of a joined model.
isReference(m, J, ref) ==
  IF ref.path = <<>>
  THEN ref.field \in attrsOf[m] \/ candidates(m, J, ref.field) # {}
  ELSE isPath(m, ref.path) /\ ref.field \in attrsOf[modelAt(m, ref.path)]

\* All of them.
References(m, J) ==
  UNION {{[path |-> p, field |-> f] : f \in attrsOf[modelAt(m, p)]} :
           p \in Paths(m)}
  \cup {[path |-> <<>>, field |-> f] :
          f \in {g \in FieldNames :
                   g \in attrsOf[m] \/ candidates(m, J, g) # {}}}

JoinInit ==
  /\ primary = "user"
  /\ joins = <<>>
  /\ groupBy = FALSE
  /\ refs = {}
  /\ compiled = NotCompiled

\* join(path): the relations of the path are joined; nothing is grouped.
Join(p) ==
  /\ isPath(primary, p)
  /\ ~joined(joins, p)
  /\ Len(joinRelation(primary, joins, p, 1)) <= MaxJoins
  /\ joins' = joinRelation(primary, joins, p, 1)
  /\ compiled' = NotCompiled
  /\ UNCHANGED <<primary, groupBy, refs>>
  /\ UNCHANGED <<txVars, saveVars, cacheVars, queryVars, transformVars>>

\* A condition or ordering on a field reference: the relations of its path
\* that are not joined are, and the query is grouped when one was.
Reference(ref) ==
  LET J1 == joinRelation(primary, joins, ref.path, 1) IN
  /\ isReference(primary, joins, ref)
  /\ Len(J1) <= MaxJoins
  /\ Cardinality(refs \cup {ref}) <= MaxRefs
  /\ joins' = J1
  /\ groupBy' = groups(groupBy, joins, J1)
  /\ refs' = refs \cup {ref}
  /\ compiled' = NotCompiled
  /\ UNCHANGED primary
  /\ UNCHANGED <<txVars, saveVars, cacheVars, queryVars, transformVars>>

\* where({ 'path.field': value }).
Where(ref) == Reference(ref)

\* orderBy('path.field').
OrderBy(ref) == Reference(ref)

\* query.statement.
Compile ==
  /\ compiled = NotCompiled
  /\ compiled' = joinStatement(primary, joins, refs)
  /\ UNCHANGED <<primary, joins, groupBy, refs>>
  /\ UNCHANGED <<txVars, saveVars, cacheVars, queryVars, transformVars>>

(***************************************************************************)
(* Transforms of query results (lib/query/mixins/transform.js).  Queries   *)
(* built by transform() are numbered 1..tnq; 0 stands for the query they   *)
(* start from, which has no transforms.  The transform functions add one   *)
(* to a number or double it, so that their order shows in the result.      *)
(***************************************************************************)

Fns == {"inc", "dbl"}

\* The results the execution of a query resolves with.
Results == {1, 2}

\* fn(transformed, type)
apply(fn, transformed, type) ==
  IF fn = "inc" THEN transformed + 1 ELSE 2 * transformed

\* init: a query that was never built by transform().
NoTransforms ==
  [transforms |-> <<>>, pc |-> "unbuilt", applied |-> 0, out |-> 0]

\* The _transforms of the query a builder call is made on.
transformsOf(T, src) == IF src = 0 THEN <<>> ELSE T[src].transforms

transformShared(T, new, src, fn) ==
  LET list == Append(transformsOf(T, src), fn)
      both == [T EXCEPT ![new] = [NoTransforms EXCEPT !.transforms = list,
                                                      !.pc = "built"]]
  IN IF src = 0 THEN both ELSE [both EXCEPT ![src].transforms = list]

\* transform(fn): _dup() copies the list (_take slices it), fn is pushed on
\* the copy.
transform(T, new, src, fn) ==
  LET dup == [NoTransforms EXCEPT !.transforms = transformsOf(T, src),
                                  !.pc = "built"]
  IN [T EXCEPT ![new] = [dup EXCEPT !.transforms = Append(@, fn)]]

RECURSIVE applyTransformsFrom(_, _, _)
\* reduce: the transforms from left to right, each on the value so far.
applyTransformsFrom(fns, transformed, type) ==
  IF fns = <<>>
  THEN transformed
  ELSE applyTransformsFrom(Tail(fns), apply(Head(fns), transformed, type),
                           type)

\* _applyTransforms(result)
applyTransforms(q, result) ==
  applyTransformsFrom(q.transforms, result, "select")

TransformInit ==
  /\ tnq = 0
  /\ tqueries = [i \in 1..MaxTransformQueries |-> NoTransforms]

\* query.transform(fn) on the query src.
Transform(src, fn) ==
  /\ tnq < MaxTransformQueries
  /\ tnq' = tnq + 1
  /\ tqueries' = transform(tqueries, tnq + 1, src, fn)
  /\ UNCHANGED <<txVars, saveVars, cacheVars, joinVars, queryVars>>

\* _execute of query i when the execution of its super resolves with
\* result: the transforms are applied to it.
TransformedExecute(i, result) ==
  /\ i \in 1..tnq
  /\ tqueries[i].pc = "built"
  /\ tqueries' = [tqueries EXCEPT
                    ![i].pc = "done",
                    ![i].applied = Len(tqueries[i].transforms),
                    ![i].out = applyTransforms(tqueries[i], result)]
  /\ UNCHANGED <<tnq, txVars, saveVars, cacheVars, joinVars, queryVars>>

\* _execute of query i when the execution of its super rejects: then() does
\* not call _applyTransforms.
FailedExecute(i) ==
  /\ i \in 1..tnq
  /\ tqueries[i].pc = "built"
  /\ tqueries' = [tqueries EXCEPT ![i].pc = "failed"]
  /\ UNCHANGED <<tnq, txVars, saveVars, cacheVars, joinVars, queryVars>>

Init ==
  TxInit /\ SaveInit /\ CacheInit /\ JoinInit /\ QueryInit /\ TransformInit

Next ==
  \/ \E src \in 0..nq : Begin(src)
  \/ \E src \in 0..nq : Commit(src)
  \/ \E src \in 0..nq : Rollback(src)
  \/ \E src \in 0..nq : Select(src)
  \/ \E src \in 0..nq, t \in Ids : Transaction(src, t)
  \/ \E i \in Ids : Execute(i)
  \/ \E a \in Ids : AcquireResolve(a)
  \/ \E a \in Ids : AcquireReject(a)
  \/ \E i \in Ids : StatementSucceed(i)
  \/ \E i \in Ids : StatementFail(i)

Spec == Init /\ [][Next]_vars

\* The pool settles every acquisition it was asked for and the driver settles
\* every statement it was handed; building and executing queries is up to
\* the caller.
Settle ==
  \/ \E a \in Ids : AcquireResolve(a)
  \/ \E a \in Ids : AcquireReject(a)
  \/ \E i \in Ids : StatementSucceed(i)
  \/ \E i \in Ids : StatementFail(i)

FairSpec == Spec /\ WF_vars(Settle)

\* Sequential use: a query is built only when every query built before it
\* has been executed to its end.
Settled == \A i \in 1..nq : queries[i].pc \in {"done", "failed"}

SeqBegin(src) ==
  Settled /\ nq < MaxSeqQueries /\ Build(begin(queries, nq + 1, src))

SeqCommit(src) ==
  Settled /\ nq < MaxSeqQueries /\ Build(commit(queries, nq + 1, src))

SeqRollback(src) ==
  Settled /\ nq < MaxSeqQueries /\ Build(rollback(queries, nq + 1, src))

SeqSelect(src) ==
  Settled /\ nq < MaxSeqQueries /\ Build(spawn(queries, nq + 1, src))

SeqNext ==
  \/ \E src \in 0..nq : SeqBegin(src)
  \/ \E src \in 0..nq : SeqCommit(src)
  \/ \E src \in 0..nq : SeqRollback(src)
  \/ \E src \in 0..nq : SeqSelect(src)
  \/ \E i \in Ids : Execute(i)
  \/ \E a \in Ids : AcquireResolve(a)
  \/ \E a \in Ids : AcquireReject(a)
  \/ \E i \in Ids : StatementSucceed(i)
  \/ \E i \in Ids : StatementFail(i)

SeqSpec == Init /\ [][SeqNext]_vars

(***************************************************************************)
(* Specifications of the relation model.                                   *)
(***************************************************************************)

\* One owner and fresh articles: single-object helpers and save.
RelNext ==
  \/ \E x \in Articles : AddArticle(x)
  \/ \E x \in Articles : RemoveArticle(x)
  \/ ClearArticles
  \/ Save
  \/ \E s \in pending : FlushSucceed(s)
  \/ \E s \in pending : FlushFail(s)

RelSpec == Init /\ [][RelNext]_vars

\* The articles are fresh, unsaved or created instances.
BatchInit ==
  /\ TxInit
  /\ QueryInit
  /\ TransformInit
  /\ JoinInit
  /\ CacheInit
  /\ inFlight = EmptyInFlight
  /\ articles \in [Articles -> {FreshArticle, UnsavedArticle, CreatedArticle}]
  /\ calls = <<>>
  /\ executedSQL = <<>>
  /\ pending = {}
  /\ saveState = "idle"
  /\ before = EmptyInFlight
  /\ previous = NoSave

\* One owner and articles of any kind: several-object helpers and save.
BatchNext ==
  \/ \E objs \in ArticleLists : AddArticles(objs)
  \/ \E objs \in ArticleLists : RemoveArticles(objs)
  \/ ClearArticles
  \/ Save
  \/ \E s \in pending : FlushSucceed(s)
  \/ \E s \in pending : FlushFail(s)

BatchSpec == BatchInit /\ [][BatchNext]_vars

\* The relation is a hasMany or a hasMany through a join model.
LoadInit ==
  /\ TxInit
  /\ QueryInit
  /\ TransformInit
  /\ JoinInit
  /\ SaveInit
  /\ relation \in Kinds
  /\ table \in Tables(relation)
  /\ collection = [o \in Owners |-> NotLoaded]
  /\ inverse = [r \in Articles |-> NotLoaded]
  /\ fetchSQL = <<>>
  /\ spied = <<>>

\* Loading of the caches.
LoadNext ==
  \/ \E os \in OwnerLists : Fetch(os)
  \/ \E os \in OwnerLists : FetchWith(os)
  \/ \E o \in Owners : FetchCollection(o)

LoadSpec == LoadInit /\ [][LoadNext]_vars

\* The instances of a model are fresh (caches not loaded) or created
\* (caches empty).
AssocInit ==
  /\ TxInit
  /\ QueryInit
  /\ TransformInit
  /\ JoinInit
  /\ SaveInit
  /\ relation \in Kinds
  /\ table = <<>>
  /\ \E c \in {NotLoaded, Loaded(<<>>)} : collection = [o \in Owners |-> c]
  /\ \E c \in {NotLoaded, Loaded(<<>>)} : inverse = [r \in Articles |-> c]
  /\ fetchSQL = <<>>
  /\ spied = <<>>

\* In-memory association of instances.
AssocNext ==
  \/ \E o \in Owners, r \in Articles : Associate(o, r)
  \/ \E o \in Owners, r \in Articles : Disassociate(o, r)

AssocSpec == AssocInit /\ [][AssocNext]_vars

\* Authors that are fresh (cache not loaded) or created (cache empty), and
\* articles that are fresh, created, or hold an author other than the one
\* of the fixtures, whose cache is not loaded.
PairInit ==
  /\ TxInit
  /\ QueryInit
  /\ TransformInit
  /\ JoinInit
  /\ SaveInit
  /\ relation = "hasMany"
  /\ table = <<>>
  /\ collection \in [Owners -> {NotLoaded, Loaded(<<>>)}]
  /\ inverse \in [Articles -> {NotLoaded, Loaded(<<>>)}
                                \cup {Loaded(<<o>>) : o \in Owners \ {theUser}}]
  /\ \A r \in Articles :
       authorOf(inverse[r]) # 0 => ~collection[authorOf(inverse[r])].loaded
  /\ fetchSQL = <<>>
  /\ spied = <<>>

\* In-memory association of the articles with the author, from either side
\* of the hasMany/belongsTo pair.
PairNext ==
  \/ \E r \in Articles : Associate(theUser, r)
  \/ \E r \in Articles : Disassociate(theUser, r)
  \/ \E r \in Articles : AssociateAuthor(r, theUser)
  \/ \E r \in Articles : DisassociateAuthor(r, theUser)

PairSpec == PairInit /\ [][PairNext]_vars

\* Authors that are fresh (cache not loaded) or created (cache empty, no
\* article stored for them) and fresh articles; the rows of the articles
\* are stored in the order of their ids.
SlotInit ==
  /\ TxInit
  /\ QueryInit
  /\ TransformInit
  /\ JoinInit
  /\ SaveInit
  /\ relation = "hasMany"
  /\ table \in {rows \in Tables("hasMany") :
                  \A i, j \in DOMAIN rows : i < j => rows[i].id < rows[j].id}
  /\ collection \in [Owners -> {NotLoaded, Loaded(<<>>)}]
  /\ \A o \in Owners : collection[o].loaded => objectsOf(table, o) = <<>>
  /\ inverse = [r \in Articles |-> NotLoaded]
  /\ fetchSQL = <<>>
  /\ spied = <<>>

\* Loading of the hasMany caches and assignment of the belongsTo side.
SlotNext ==
  \/ \E os \in OwnerLists : LoadWith(os)
  \/ \E o \in Owners : LoadCollection(o)
  \/ \E r \in Articles, o \in Owners \cup {0} : SetAuthor(r, o)

SlotSpec == SlotInit /\ [][SlotNext]_vars

\* Queries of a model with joins, conditions and orderings.
JoinSpecInit ==
  /\ TxInit
  /\ QueryInit
  /\ TransformInit
  /\ SaveInit
  /\ CacheInit
  /\ primary \in Models
  /\ joins = <<>>
  /\ groupBy = FALSE
  /\ refs = {}
  /\ compiled = NotCompiled

JoinNext ==
  \/ \E p \in Paths(primary) : Join(p)
  \/ \E ref \in References(primary, joins) : Where(ref)
  \/ \E ref \in References(primary, joins) : OrderBy(ref)
  \/ Compile

JoinSpec == JoinSpecInit /\ [][JoinNext]_vars

\* The user of the fixtures, whose table of articles is empty or holds the
\* article of the fixtures.
HelperInit ==
  /\ TxInit
  /\ QueryInit
  /\ TransformInit
  /\ JoinInit
  /\ SaveInit
  /\ relation = "hasMany"
  /\ table \in {t \in Tables("hasMany") :
                  Len(t) <= 1 /\ \A k \in DOMAIN t : t[k].key = theUser}
  /\ collection = [o \in Owners |-> NotLoaded]
  /\ inverse = [r \in Articles |-> NotLoaded]
  /\ fetchSQL = <<>>
  /\ spied = <<>>

\* Helpers and saves of an owner whose collection cache may be loaded.
HelperNext ==
  \/ FetchCollection(theUser)
  \/ \E x \in Articles : AddArticle(x)
  \/ \E x \in Articles : RemoveArticle(x)
  \/ ClearArticles
  \/ Save
  \/ \E s \in pending : FlushSucceed(s)

HelperSpec == HelperInit /\ [][HelperNext]_vars

\* Helpers and saves of an owner whose articleObjects is read.
QueryNext ==
  \/ ReadArticleObjects
  \/ \E x \in Articles : AddArticle(x)
  \/ \E x \in Articles : RemoveArticle(x)
  \/ \E x \in Articles : CreateArticle(x)
  \/ ClearArticles
  \/ Save
  \/ \E s \in pending : FlushSucceed(s)

QuerySpec == Init /\ [][QueryNext]_vars

\* Queries with transforms.
TransformNext ==
  \/ \E src \in 0..tnq, fn \in Fns : Transform(src, fn)
  \/ \E i \in 1..tnq, result \in Results : TransformedExecute(i, result)
  \/ \E i \in 1..tnq : FailedExecute(i)

TransformSpec == Init /\ [][TransformNext]_vars

TypeOK ==
  /\ nq \in 0..Len(queries)
  /\ \A i \in Ids :
       /\ queries[i].transactionSQLOverride \in Overrides
       /\ queries[i].transaction \in {0} \cup Ids
       /\ queries[i].err \in Errors
       /\ queries[i].kind \in QueryKinds
  /\ Len(acquires) <= nq
  /\ Len(releases) <= nq
  /\ closers \subseteq 1..nq

(***************************************************************************)
(* Properties of the transaction mixin.                                    *)
(***************************************************************************)

\* The errors _validateBeforeTransactionExecution throws.
ValidationErrors == {"MustAssociate", "MustBegin", "Closed"}

\* Query i has been handed to execute().
Executed(i) == queries[i].pc \in {"waiting", "running", "done", "failed"}

\* The queries built so far are the first of begin(); begin(); commit();
\* commit() on one handle, and none of them was failed by the pool or the
\* driver.
NestedOps == <<"begin", "begin", "commit", "commit">>

IsNested ==
  /\ nq <= Len(NestedOps)
  /\ \A i \in 1..nq : /\ queries[i].transactionSQLOverride = NestedOps[i]
                      /\ queries[i].transaction = 1
                      /\ queries[i].err = "none"
  /\ \A a \in 1..Len(acquires) : acquires[a].state # "rejected"

\* C1: when begin(); begin(); commit(); commit() are built and executed one
\* after the other on one handle, the pool's acquire is called exactly once
\* and its release exactly once, by the second commit once its statement has
\* completed and by no earlier statement.
C1_NestedAcquiresAndReleasesOnce ==
  IsNested =>
    /\ Len(acquires) <= 1
    /\ \/ releases = <<>>
       \/ /\ releases = <<[by |-> 4, transaction |-> 1, client |-> 1]>>
          /\ queries[4].pc = "done"
    /\ (nq = 4 /\ queries[4].pc = "done") =>
          (Len(acquires) = 1 /\ Len(releases) = 1)

C1_Witness ==
  /\ IsNested
  /\ nq = 4
  /\ \A i \in 1..4 : queries[i].pc = "done"
  /\ Len(releases) = 1

\* C2 (as claimed): every release of a handle's connection is made by the
\* statement that closed the handle, after that statement has completed, and
\* no connection is released twice.
C2_ReleaseOnlyByClosingStatement ==
  \A k \in 1..Len(releases) :
     /\ releases[k].by \in closers
     /\ queries[releases[k].by].pc = "done"
     /\ \A j \in 1..Len(releases) :
           j # k => releases[j].client # releases[k].client

\* C3 (as claimed): while an acquisition of a handle is in flight no statement
\* of the handle starts another one.
C3_OneAcquisitionInFlight ==
  \A a, b \in 1..Len(acquires) :
     (a # b /\ acquires[a].transaction = acquires[b].transaction) =>
        ~(acquires[a].state = "pending" /\ acquires[b].state = "pending")

\* Queries i and j of one handle have their statements on the handle's
\* connection at the same time.
RunTogether(i, j) ==
  /\ i # j
  /\ queries[i].pc = "running" /\ queries[j].pc = "running"
  /\ queries[i].transaction # 0
  /\ queries[i].transaction = queries[j].transaction
  /\ queries[i].conn # 0
  /\ queries[i].conn = queries[j].conn

C5_Begin ==
  [][\A src \in 0..nq :
       ( /\ nq' = nq + 1
         /\ queries'[nq'].transactionSQLOverride = "begin"
         /\ Begin(src) ) =>
       LET t == TransactionOf(queries, src) IN
       /\ t = 0 =>
            /\ queries'[nq'].transaction = nq'
            /\ queries'[nq'].transactionDepth = 1
            /\ queries'[nq'].transactionNeedsToAcquireClient
       /\ (t # 0 /\ queries[t].transactionDepth >= 1) =>
            /\ queries'[nq'].transaction = t
            /\ queries'[t].transactionDepth = queries[t].transactionDepth + 1
            /\ queries'[t].transactionNeedsToAcquireClient =
                 queries[t].transactionNeedsToAcquireClient]_vars

C5_Witness ==
  \E t, i \in 1..nq :
     /\ i # t
     /\ queries[t].transaction = t
     /\ queries[i].transaction = t
     /\ queries[i].transactionSQLOverride = "begin"
     /\ queries[t].transactionDepth = 2
     /\ ~queries[t].transactionNeedsToAcquireClient

\* C6: commit() and rollback() on a query of a transaction take one from the
\* depth; they set the closed and needs-to-release flags when the depth was
\* 1 and leave both flags as they were at any other depth.
C6_CommitRollback ==
  [][\A src \in 0..nq :
       ( /\ nq' = nq + 1
         /\ queries'[nq'].transactionSQLOverride \in {"commit", "rollback"}
         /\ (Commit(src) \/ Rollback(src)) ) =>
       LET t == TransactionOf(queries, src) IN
       t # 0 =>
         /\ queries'[t].transactionDepth = queries[t].transactionDepth - 1
         /\ queries[t].transactionDepth = 1 =>
              /\ queries'[t].transactionClosed
              /\ queries'[t].transactionNeedsToReleaseClient
         /\ queries[t].transactionDepth # 1 =>
              /\ queries'[t].transactionClosed = queries[t].transactionClosed
              /\ queries'[t].transactionNeedsToReleaseClient =
                   queries[t].transactionNeedsToReleaseClient]_vars

C6_Witness ==
  \E t, i, j \in 1..nq :
     /\ i # j
     /\ queries[i].transaction = t /\ queries[j].transaction = t
     /\ queries[i].transactionSQLOverride = "begin"
     /\ queries[j].transactionSQLOverride \in {"commit", "rollback"}
     /\ i # t
     /\ queries[t].transactionDepth = 1
     /\ ~queries[t].transactionClosed

\* C7: executing a query other than a begin whose transaction still needs to
\* acquire its client fails with "Must execute `begin` query before using
\* transaction", be it a regular query, a commit or a rollback; no client is
\* acquired and no field of any other object changes.
C7_UseBeforeBegin ==
  [][\A i \in 1..nq :
       LET t == queries[i].transaction IN
       ( /\ queries[i].transactionSQLOverride # "begin"
         /\ t # 0
         /\ queries[t].transactionNeedsToAcquireClient
         /\ queries[i].pc = "built"
         /\ Execute(i) ) =>
           /\ queries'[i] = [queries[i] EXCEPT !.pc = "failed", !.err = "MustBegin"]
           /\ \A j \in Ids : j # i => queries'[j] = queries[j]
           /\ acquires' = acquires
           /\ releases' = releases]_vars

C7_Witness ==
  \E i, j \in 1..nq :
     /\ queries[i].err = "MustBegin"
     /\ queries[i].transactionSQLOverride = "none"
     /\ queries[j].err = "MustBegin"
     /\ queries[j].transactionSQLOverride \in {"commit", "rollback"}

C9_ClosedIsTerminal ==
  [][\A i \in 1..nq :
       LET t == queries[i].transaction IN
       ( /\ Execute(i)
         /\ queries[i].transactionSQLOverride # "begin"
         /\ t # 0
         /\ queries[t].transactionClosed
         /\ i \notin closers ) =>
           /\ queries'[i].pc = "failed"
           /\ queries'[i].err \in ValidationErrors]_vars

\* C10: executing a commit or rollback that has no transaction fails with
\* "Must associate ... with a transaction"; executing a begin never fails
\* the validation.
C10_MissingTransaction ==
  [][\A i \in 1..nq :
       ( /\ queries[i].transactionSQLOverride # "none"
         /\ queries[i].pc = "built"
         /\ Execute(i) ) =>
       /\ ( /\ queries[i].transactionSQLOverride \in {"commit", "rollback"}
            /\ queries[i].transaction = 0 ) =>
              /\ queries'[i].pc = "failed"
              /\ queries'[i].err = "MustAssociate"
              /\ queries'[i].conn = -1
       /\ queries[i].transactionSQLOverride = "begin" =>
              queries'[i].err \notin ValidationErrors]_vars

C10_Witness ==
  \E i, j \in 1..nq :
     /\ queries[i].err = "MustAssociate"
     /\ queries[i].transaction = 0
     /\ queries[j].transactionSQLOverride = "begin"
     /\ Executed(j)
     /\ queries[j].err = "none"

\* The acquisition that transaction t has cached has been rejected.
CachedRejected(t) ==
  /\ queries[t].transactionClientPromise # 0
  /\ acquires[queries[t].transactionClientPromise].state = "rejected"

C12_BuildersLeaveTheOriginal ==
  [][\A src \in 1..nq :
       ( \/ Begin(src) \/ Commit(src) \/ Rollback(src) \/ Select(src)
         \/ \E t \in Ids : Transaction(src, t) ) =>
            /\ nq' # src
            /\ queries'[src] = queries[src]]_vars

(***************************************************************************)
(* Properties of the in-flight data of a to-many relation.                 *)
(***************************************************************************)

\* The statements of every group of executedSQL.
Issued(log) == UNION Range(log)

\* C13: after add(x), remove(x), add(y), clear(), add(x) on a to-many
\* relation, a save of the owner flushes exactly what was recorded after
\* the clear, the addition of x, behind the clear itself: the addition of y
\* recorded before the clear is discarded, no removal is issued, and the
\* addition of x recorded after the clear is not suppressed.
C13_FlushesPostClearOperations ==
  \A x, y \in Articles :
    (x # y /\ calls = Scenario(x, y)) =>
      LET clearOnly == <<{clearStatement}>>
          clearThenAdd == <<{clearStatement}, {batchStatement("add", <<x>>)}>>
      IN /\ saveState # "saved" =>
              inFlight = [clear |-> TRUE, add |-> <<x>>, remove |-> <<>>]
         /\ saveState = "idle" => executedSQL = <<>>
         /\ saveState = "clearing" => executedSQL = clearOnly
         /\ saveState \in {"flushing", "failing", "saved"} =>
              executedSQL = clearThenAdd
         /\ saveState = "failed" => executedSQL \in {clearOnly, clearThenAdd}

\* The save that followed the five calls succeeded with the clear and the
\* addition of article 1.
C13_Witness ==
  /\ calls = Scenario(1, 2)
  /\ saveState = "saved"
  /\ executedSQL = <<{clearStatement}, {batchStatement("add", <<1>>)}>>

\* What a save flushes for in-flight data of fresh articles.
operationsOf(data) ==
  (IF data.clear THEN {clearStatement} ELSE {})
  \cup (IF data.add # <<>> THEN {batchStatement("add", data.add)} ELSE {})
  \cup (IF data.remove # <<>>
        THEN {batchStatement("remove", data.remove)} ELSE {})

\* C14: when a statement of a flush fails, the in-flight data (clear flag,
\* add, remove) is what it was before the save and a dirty instance of the
\* failed statement stays dirty; the next save flushes the same in-flight
\* data, reissuing what the failed save issued, and when it succeeds the
\* in-flight data is empty.
C14_FailedFlushKeepsInFlight ==
  /\ [](saveState \in {"clearing", "flushing", "failing", "failed"} =>
          inFlight = before)
  /\ [][/\ \A s \in pending :
             FlushFail(s) =>
               \A a \in Range(s.ids) :
                 dirty(articles[a]) => dirty(articles'[a])
        /\ (Save /\ saveState = "failed") => before' = before]_vars
  /\ []((saveState = "saved" /\ previous.result = "failed") =>
          /\ inFlight = EmptyInFlight
          /\ Issued(executedSQL) = operationsOf(before)
          /\ previous.sql \subseteq Issued(executedSQL))

\* A save failed and the save after it succeeded.
C14_Witness ==
  /\ saveState = "saved"
  /\ previous.result = "failed"
  /\ previous.sql = {batchStatement("add", <<1>>)}
  /\ executedSQL = <<{batchStatement("add", <<1>>)}>>
  /\ before = [clear |-> FALSE, add |-> <<1>>, remove |-> <<>>]
  /\ inFlight = EmptyInFlight

\* C15: after a successful save the in-flight data of the owner is
\* {clear: false, add: [], remove: []}, and a save that follows it without
\* a helper call in between issues no statement.
C15_FlushedOnce ==
  /\ [](saveState = "saved" => inFlight = EmptyInFlight)
  /\ [][(Save /\ saveState = "saved") =>
          /\ executedSQL' = <<>>
          /\ pending' = {}
          /\ saveState' = "saved"]_vars

\* A save that issued statements was followed by a save that issued none.
C15_Witness ==
  /\ saveState = "saved"
  /\ previous.result = "saved"
  /\ previous.sql # {}
  /\ executedSQL = <<>>
  /\ inFlight = EmptyInFlight

\* C16 as claimed: a save issues at most one clear statement, one statement
\* for all its additions and one for all its removals.
C16_OneStatementPerDirection ==
  \A d \in {"clear", "add", "remove"} :
    Cardinality({s \in Issued(executedSQL) : s.dir = d}) <= 1

\* C16: a save issues at most one clear statement; the pending additions of
\* persisted instances without changes of their own share one statement,
\* and so do the pending removals of such instances; every other pending
\* instance is stored by its own statement, except that the removal of an
\* instance that was never stored issues nothing.
C16_BatchesCleanInstances ==
  [][(executedSQL' # executedSQL /\ executedSQL' # <<>>) =>
       LET group == executedSQL'[Len(executedSQL')]
       IN /\ Cardinality({k \in DOMAIN executedSQL' :
                            clearStatement \in executedSQL'[k]}) <= 1
          /\ group # {clearStatement} =>
               \A d \in {"add", "remove"} :
                 LET wanted == Range(inFlight[d])
                     clean == {a \in wanted : Batchable(articles, a)}
                     batches == {s \in group : s.dir = d /\ s.via = "update"}
                     saves == {s \in group : s.dir = d /\ s.via = "save"}
                 IN /\ Cardinality(batches) <= 1
                    /\ (clean # {}) <=> (batches # {})
                    /\ \A s \in batches : Range(s.ids) = clean
                    /\ \A s \in saves :
                         Len(s.ids) = 1 /\ s.ids[1] \in wanted \ clean
                    /\ \A a \in wanted \ clean :
                         (d = "add" \/ articles[a].persisted)
                           <=> (instanceStatement(d, a) \in saves)]_vars

\* A save stored two instances by one statement.
C16_Witness ==
  /\ saveState = "saved"
  /\ \E s \in Issued(executedSQL) : s.via = "update" /\ Len(s.ids) >= 2

(***************************************************************************)
(* Properties of the collection caches.                                    *)
(***************************************************************************)

\* C17: reading the collection cache of an owner whose relation has not
\* been loaded fails with "not yet loaded"; once the owner's relation query
\* or an eager load has completed, the read succeeds and gives a sequence
\* of related objects, the empty sequence when there are no rows.
C17_ReadNeedsLoad ==
  /\ [](\A o \in Owners :
          IF collection[o].loaded
          THEN /\ read(collection[o]).error = "none"
               /\ read(collection[o]).value \in Seq(Articles)
          ELSE read(collection[o]).error = "NotYetLoaded")
  /\ [][/\ \A o \in Owners :
             FetchCollection(o) =>
               read(collection'[o]) =
                 [error |-> "none", value |-> objectsOf(table, o)]
        /\ \A os \in OwnerLists :
             FetchWith(os) =>
               \A o \in Range(os) :
                 read(collection'[o]) =
                   [error |-> "none", value |-> objectsOf(table, o)]
        /\ \A os \in OwnerLists :
             Fetch(os) =>
               \A o \in Range(os) :
                 read(collection'[o]).error = "NotYetLoaded"]_vars

\* One owner is loaded without rows while another owner is not loaded.
C17_Witness ==
  /\ fetchSQL # <<>>
  /\ \E o, u \in Owners :
       /\ collection[o] = Loaded(<<>>)
       /\ ~collection[u].loaded

\* C18: an eager load of a relation for N owners issues one statement after
\* the statement for the owners, whatever N is, and leaves every one of the
\* owners loaded: without objects when it has no rows, with its own rows in
\* the order of the result otherwise.
C18_EagerLoadOneFollowUp ==
  [][\A os \in OwnerLists :
       FetchWith(os) =>
         /\ fetchSQL' = <<selectOwners, [table |-> "related", keys |-> os]>>
         /\ \A o \in Range(os) :
              /\ collection'[o].loaded
              /\ collection'[o].objects = objectsOf(table, o)]_vars

\* An eager load for two owners or more: one has no rows, one has two.
C18_Witness ==
  /\ Len(fetchSQL) = 2
  /\ Len(fetchSQL[2].keys) >= 2
  /\ \E o, u \in Range(fetchSQL[2].keys) :
       /\ collection[o] = Loaded(<<>>)
       /\ collection[u].loaded
       /\ Len(collection[u].objects) >= 2

\* C19: an eager load or a fetch of a relation through a join model leaves
\* the inverse collection of every related object it fetched not loaded:
\* reading it fails with "not yet loaded".
C19_InverseNotLoaded ==
  relation = "through" =>
    \A o \in Owners :
      \A r \in Range(collection[o].objects) :
        read(inverse[r]).error = "NotYetLoaded"

\* Courses of a student have been fetched.
C19_Witness ==
  /\ relation = "through"
  /\ fetchSQL # <<>>
  /\ \E o \in Owners : collection[o].loaded /\ collection[o].objects # <<>>

\* C20: associate and disassociate of a relation through a join model set
\* no attribute on the owner or the related object and call neither
\* associate nor disassociate of the relations they go through: the calls
\* that the spies saw after any step of such a relation have none of them.
C20_ThroughAssociateSetsNothing ==
  [][relation = "through" =>
       \A k \in DOMAIN spied' :
          /\ spied'[k].call # "setAttribute"
          /\ spied'[k].on \notin {"owner", "related", "through"}]_vars

\* An association through a join model has reached a loaded cache.
C20_Witness ==
  /\ relation = "through"
  /\ spied # <<>>
  /\ \E o \in Owners : collection[o].loaded /\ collection[o].objects # <<>>

(***************************************************************************)
(* Properties of joins.                                                    *)
(***************************************************************************)

\* The joins of a query after the relation paths of ps were resolved in
\* the order of ps.
RECURSIVE resolveAll(_, _, _)
resolveAll(m, J, ps) ==
  IF ps = <<>> THEN J
  ELSE resolveAll(m, joinRelation(m, J, Head(ps), 1), Tail(ps))

\* Relation path p is the beginning of relation path q.
IsPrefix(p, q) == Len(p) <= Len(q) /\ SubSeq(q, 1, Len(p)) = p

C22_FieldResolution ==
  [][Compile =>
       /\ \A ref \in refs :
             LET c == candidates(primary, joins, ref.field) IN
             /\ ( /\ ref.path = <<>>
                  /\ ref.field \notin attrsOf[primary]
                  /\ Cardinality(c) >= 2 ) =>
                   /\ compiled'.error = "ambiguous"
                   /\ compiled'.field = ref.field
                   /\ compiled'.tables = c
             /\ (ref.path = <<>> /\ ref.field \in attrsOf[primary]) =>
                   /\ resolveField(primary, joins, ref) =
                        [error |-> "none",
                         tables |-> {Alias(tableName[primary], 0)}]
                   /\ compiled'.error = "none" =>
                        <<ref, {Alias(tableName[primary], 0)}>>
                           \in compiled'.fields
             /\ ref.path # <<>> =>
                   /\ resolveField(primary, joins, ref) =
                        [error |-> "none",
                         tables |-> {aliasOf(primary, joins, ref.path)}]
                   /\ modelAt(primary, ref.path) =
                        relatedModel[aliasOf(primary, joins, ref.path).name]
                   /\ compiled'.error = "none" =>
                        <<ref, {aliasOf(primary, joins, ref.path)}>>
                           \in compiled'.fields
       /\ compiled'.error = "ambiguous" =>
             \E ref \in refs :
                /\ ref.path = <<>>
                /\ ref.field = compiled'.field
                /\ ref.field \notin attrsOf[primary]
                /\ Cardinality(candidates(primary, joins, ref.field)) >= 2]_vars

C22_Witness ==
  /\ primary = "user"
  /\ compiled.error = "ambiguous"
  /\ compiled.field = "title"
  /\ compiled.tables = {Alias("articles", 0), Alias("blogs", 0)}
  /\ [path |-> <<"articles">>, field |-> "title"] \in refs

\* C23 (as claimed): join() never groups the query; a condition or ordering
\* groups it only when its relation path names a to-many relation and is
\* not joined, never when the path names to-one relations only.
C23_GroupsForToManyOnly ==
  [][ /\ \A p \in Paths(primary) :
            (joined(joins', p) /\ Join(p)) => groupBy' = groupBy
      /\ \A ref \in References(primary, joins) :
            ( /\ groupBy' /\ ~groupBy
              /\ ref \in refs'
              /\ (Where(ref) \/ OrderBy(ref)) ) =>
               /\ ~joined(joins, ref.path)
               /\ \E k \in DOMAIN ref.path : ref.path[k] \in toMany ]_vars

\* C23 (amended): join() never groups the query; a condition or ordering
\* groups it exactly when its relation path is not joined yet, whether the
\* relations of the path are to-many or to-one.
C23_GroupsWhenReferenceJoins ==
  [][ /\ \A p \in Paths(primary) :
            (joined(joins', p) /\ Join(p)) => groupBy' = groupBy
      /\ \A ref \in References(primary, joins) :
            (ref \in refs' /\ (Where(ref) \/ OrderBy(ref))) =>
               groupBy' = (groupBy \/ ~joined(joins, ref.path)) ]_vars

C23_Witness ==
  /\ primary = "employee"
  /\ groupBy
  /\ joins = << [path |-> <<"manager">>, alias |-> Alias("manager", 0)] >>
  /\ refs = { [path |-> <<"manager">>, field |-> "id"] }

\* C24: an entry query without a begin, commit or rollback override does not
\* compile ('Must first call ... on query'), so that executing it fails
\* before a statement reaches a connection; an entry query with such an
\* override compiles to the begin, commit or rollback statement of the
\* dialect.
C24_EntryQueryStatement ==
  \A i \in 1..nq :
     queries[i].kind = "entry" =>
       /\ statement(queries, i) =
            IF queries[i].transactionSQLOverride = "none"
            THEN "MustFirstCall"
            ELSE queries[i].transactionSQLOverride
       /\ queries[i].transactionSQLOverride = "none" =>
            /\ queries[i].pc \notin {"running", "done"}
            /\ queries[i].conn = -1
       /\ queries[i].err = "MustFirstCall" =>
            queries[i].transactionSQLOverride = "none"

C24_Witness ==
  \E i, j \in 1..nq :
     /\ queries[i].kind = "entry"
     /\ queries[i].err = "MustFirstCall"
     /\ queries[j].kind = "entry"
     /\ queries[j].transactionSQLOverride = "begin"
     /\ queries[j].pc = "done"

\* C25 (as claimed): when the commit or rollback that closed a handle is
\* executing on the handle's connection, the connection is eventually
\* released, whether the statement succeeds or fails.
C25_ClosedHandleReleases ==
  \A i, t \in Ids :
     ( /\ i \in closers
       /\ queries[i].pc = "running"
       /\ queries[i].transaction = t
       /\ queries[i].conn # 0
       /\ queries[t].transactionClient = queries[i].conn )
     ~> (queries[t].transactionClient = 0)

\* C26: when a statement other than the closing one fails on a handle, the
\* depth, the closed flag, the needs-to-release flag and the client of the
\* handle stay as they are, nothing is released and no query (no rollback)
\* is built; every other query of the handle is validated as before and is
\* given the same client.
C26_FailedStatementLeavesHandle ==
  [][\A i \in 1..nq :
       LET t == queries[i].transaction IN
       ( /\ queries[i].pc = "running"
         /\ queries'[i].err = "StatementFailed"
         /\ t # 0
         /\ i \notin closers ) =>
           /\ queries'[t].transactionDepth = queries[t].transactionDepth
           /\ queries'[t].transactionClosed = queries[t].transactionClosed
           /\ queries'[t].transactionNeedsToReleaseClient =
                queries[t].transactionNeedsToReleaseClient
           /\ queries'[t].transactionClient = queries[t].transactionClient
           /\ releases' = releases
           /\ nq' = nq
           /\ \A j \in 1..nq :
                 (j # i /\ queries[j].transaction = t) =>
                   /\ validateBeforeTransactionExecution(queries', j) =
                        validateBeforeTransactionExecution(queries, j)
                   /\ client(queries', j) = client(queries, j)]_vars

C26_Witness ==
  \E i, j \in 1..nq :
     LET t == queries[i].transaction IN
     /\ queries[i].err = "StatementFailed"
     /\ i \notin closers
     /\ t # 0
     /\ ~queries[t].transactionClosed
     /\ queries[t].transactionClient # 0
     /\ j > i
     /\ queries[j].transaction = t
     /\ queries[j].transactionSQLOverride = "none"
     /\ queries[j].pc = "done"
     /\ queries[j].conn = queries[t].transactionClient
     /\ queries[i].conn = queries[j].conn

\* C27 (as claimed): a statement of a query that belongs to a handle runs on
\* a connection the pool gave to that handle, never on the client the
\* adapter picks for queries without a transaction.
C27_RunsOnHandleConnection ==
  \A i \in 1..nq :
     LET t == queries[i].transaction
         c == queries[i].conn
     IN (t # 0 /\ c # -1) =>
          /\ c # 0
          /\ c \in 1..Len(acquires)
          /\ acquires[c].transaction = t

\* C28 (as claimed): once the begin of a handle has been executed and while
\* no commit or rollback that closed it has been executed, every regular
\* query of the handle passes the validation.
C28_RegularQueriesPassUntilClosed ==
  [][\A i \in 1..nq :
       LET t == queries[i].transaction IN
       ( /\ Execute(i)
         /\ queries[i].transactionSQLOverride = "none"
         /\ t # 0
         /\ queries[t].transactionSQLOverride = "begin"
         /\ queries[t].pc = "done"
         /\ \A c \in closers :
               queries[c].transaction = t => queries[c].pc = "built" ) =>
           queries'[i].err \notin ValidationErrors]_vars

\* C29 (as claimed): the depth of a transaction is never negative.
C29_DepthNeverNegative ==
  \A t \in Ids : queries[t].transactionDepth >= 0

\* The acquisitions the pool was asked for on behalf of transaction t.
AcquisitionsOf(t) ==
  {a \in 1..Len(acquires) : acquires[a].transaction = t}

\* C30 (as claimed): the pool is asked for a connection at most once for
\* one handle.
C30_AcquiresOncePerHandle ==
  \A t \in Ids : Cardinality(AcquisitionsOf(t)) <= 1

\* C31 (as claimed): a commit or rollback built for a transaction takes one
\* from its depth, whether commit()/rollback() is called on a query of the
\* transaction or transaction(t) on a commit or rollback query that has no
\* transaction; transaction(t) on a commit or rollback query that belongs to
\* t already leaves the depth and the flags of t as they are.
C31_CommitDecrementsOnce ==
  [][\A src \in 1..nq, t \in 1..nq :
       /\ ( /\ TransactionOf(queries, src) = t
            /\ (Commit(src) \/ Rollback(src)) ) =>
              queries'[t].transactionDepth = queries[t].transactionDepth - 1
       /\ ( /\ Transaction(src, t)
            /\ queries[src].transactionSQLOverride \in {"commit", "rollback"}
            /\ queries[src].transaction = 0 ) =>
              queries'[t].transactionDepth = queries[t].transactionDepth - 1
       /\ ( /\ Transaction(src, t)
            /\ queries[src].transactionSQLOverride \in {"commit", "rollback"}
            /\ queries[src].transaction = t ) =>
              /\ queries'[t].transactionDepth = queries[t].transactionDepth
              /\ queries'[t].transactionClosed = queries[t].transactionClosed
              /\ queries'[t].transactionNeedsToReleaseClient =
                   queries[t].transactionNeedsToReleaseClient]_vars

\* C32: every statement that reached a connection the pool gave to a
\* transaction shares that connection with a begin of the transaction that
\* was handed to it no later: the acquisition was started by a begin, and
\* the statements that awaited it follow the begin.
C32_BeginIsSentFirst ==
  \A i \in 1..nq :
     LET c == queries[i].conn IN
     c > 0 =>
       \E j \in 1..nq :
          /\ queries[j].transactionSQLOverride = "begin"
          /\ queries[j].transaction = acquires[c].transaction
          /\ queries[j].conn = c
          /\ queries[j].waitsOn = c
          /\ queries[j].pc \in {"running", "done", "failed"}

C32_Witness ==
  \E i, j \in 1..nq :
     /\ queries[j].transactionSQLOverride = "begin"
     /\ queries[i].transactionSQLOverride = "none"
     /\ queries[i].kind = "select"
     /\ queries[i].transaction = queries[j].transaction
     /\ queries[i].conn > 0
     /\ queries[i].conn = queries[j].conn
     /\ queries[i].waitsOn = queries[j].waitsOn
     /\ queries[i].pc = "running"
     /\ queries[j].pc = "running"
     /\ Len(acquires) = 1

(***************************************************************************)
(* Properties of the transform mixin.                                      *)
(***************************************************************************)

RECURSIVE piped(_, _)
\* The last transform of fns on what the transforms before it give.
piped(fns, result) ==
  IF fns = <<>>
  THEN result
  ELSE apply(fns[Len(fns)],
             piped(SubSeq(fns, 1, Len(fns) - 1), result), "select")

\* C33: transform(fn) gives a new query whose list is the list of the
\* query it was called on with fn at its end, and leaves the list of every
\* existing query as it was; an execution that succeeds applies every
\* transform of the list, in list order, each on the result of the one
\* before; an execution that fails applies none.
C33_TransformsAppendAndApplyInOrder ==
  [][/\ \A src \in 0..tnq, fn \in Fns :
          Transform(src, fn) =>
            /\ tqueries'[tnq'].transforms =
                 Append(transformsOf(tqueries, src), fn)
            /\ \A i \in 1..tnq :
                 tqueries'[i].transforms = tqueries[i].transforms
     /\ \A i \in 1..tnq, result \in Results :
          TransformedExecute(i, result) =>
            /\ tqueries'[i].out = piped(tqueries[i].transforms, result)
            /\ tqueries'[i].applied = Len(tqueries[i].transforms)
            /\ tqueries'[i].transforms = tqueries[i].transforms
     /\ \A i \in 1..tnq :
          FailedExecute(i) =>
            /\ tqueries'[i].applied = 0
            /\ tqueries'[i].out = tqueries[i].out]_vars

C33_Witness ==
  \E i, j \in 1..tnq :
     /\ tqueries[i].pc = "done"
     /\ tqueries[i].transforms = <<"inc", "dbl">>
     /\ tqueries[i].out = 4
     /\ tqueries[j].pc = "failed"
     /\ tqueries[j].transforms # <<>>

(***************************************************************************)
(* Properties of the helpers, the caches and the cached query of an owner. *)
(***************************************************************************)

\* C34: no article is pending addition and pending removal at once;
\* removing an article that is pending addition only withdraws the
\* addition, adding an article that is pending removal only withdraws the
\* removal.
C34_AddAndRemoveCancel ==
  [][/\ Range(inFlight'.add) \cap Range(inFlight'.remove) = {}
     /\ \A x \in Articles :
          /\ (x \in Range(inFlight.add) /\ RemoveArticle(x)) =>
               x \notin Range(inFlight'.add) \cup Range(inFlight'.remove)
          /\ (x \in Range(inFlight.remove) /\ AddArticle(x)) =>
               x \notin Range(inFlight'.add) \cup Range(inFlight'.remove)]_vars

C34_Witness ==
  /\ \E x \in Articles :
       calls = <<<<"add", <<x>>>>, <<"remove", <<x>>>>>>
  /\ inFlight = EmptyInFlight
  /\ saveState = "idle"

\* C35: a save whose in-flight data holds a clear issues the clear alone
\* and first; the additions and removals are issued after it, once it
\* succeeded.
C35_ClearIsExecutedFirst ==
  /\ \A k \in DOMAIN executedSQL :
       clearStatement \in executedSQL[k] =>
         k = 1 /\ executedSQL[k] = {clearStatement}
  /\ before.clear =>
       executedSQL # <<>> /\ executedSQL[1] = {clearStatement}
  /\ saveState = "clearing" => pending = {clearStatement}

C35_Witness ==
  /\ saveState = "saved"
  /\ Len(executedSQL) = 2
  /\ executedSQL[1] = {clearStatement}
  /\ \E s \in executedSQL[2] : s.dir = "add"
  /\ \E s \in executedSQL[2] : s.dir = "remove"

\* C36: a helper call leaves a cache that is not loaded so (reading it
\* fails) and changes a loaded cache with the call, before anything is
\* stored: the cache holds x after add(x), does not hold x after
\* remove(x), and is empty after clear().
C36_HelpersFollowTheLoadedCache ==
  [][\A x \in Articles :
       LET c  == collection[theUser]
           c1 == collection'[theUser]
       IN /\ (AddArticle(x) \/ RemoveArticle(x) \/ ClearArticles) =>
               /\ c1.loaded = c.loaded
               /\ ~c.loaded => read(c1).error = "NotYetLoaded"
               /\ executedSQL' = <<>>
          /\ (c.loaded /\ AddArticle(x)) => x \in Range(c1.objects)
          /\ (c.loaded /\ RemoveArticle(x)) => x \notin Range(c1.objects)
          /\ (c.loaded /\ ClearArticles) => c1.objects = <<>>]_vars

C36_Witness ==
  /\ collection[theUser].loaded
  /\ table # <<>>
  /\ saveState = "idle"
  /\ \E x \in Range(inFlight.add) : x \in Range(collection[theUser].objects)
  /\ \E y \in Range(inFlight.remove) :
       y \notin Range(collection[theUser].objects)

\* C39: the cached articleObjects query stays the same until a helper call
\* or a save that stored relation changes drops it; a save with nothing
\* pending leaves it; the getter gives the cached query, or a query it
\* never gave before.
C39_CachedQueryUntilTheRelationChanges ==
  [][/\ articleObjects' # 0 =>
          /\ ~ClearArticles
          /\ \A x \in Articles :
               ~(AddArticle(x) \/ RemoveArticle(x) \/ CreateArticle(x))
          /\ ~(saveState # "saved" /\ saveState' = "saved"
                 /\ executedSQL' # <<>>)
     /\ (inFlight = EmptyInFlight /\ articleObjects' # articleObjects) =>
          ~Save
     /\ articleObjects' \notin (1..queryObjects) \ {articleObjects}
     /\ articleObjects' <= queryObjects => ~ReadArticleObjects]_vars

C39_Witness ==
  /\ articleObjects = 2
  /\ queryObjects = 2
  /\ saveState = "saved"
  /\ executedSQL # <<>>

C40_SelfJoinsAreAliased ==
  LET own == tableName[primary]
  IN /\ \A k \in DOMAIN joins :
          LET name   == joins[k].path[Len(joins[k].path)]
              earlier == Cardinality({l \in 1..(k - 1) :
                                        joins[l].alias.name = name})
          IN /\ joins[k].alias # Alias(own, 0)
             /\ joins[k].alias =
                  Alias(name, earlier + IF name = own THEN 1 ELSE 0)
     /\ \A k, l \in DOMAIN joins :
          k # l => joins[k].alias # joins[l].alias

C40_Witness ==
  /\ primary = "node"
  /\ Len(joins) = 2
  /\ joins[1] = [path |-> <<"nodes">>, alias |-> Alias("nodes", 1)]
  /\ joins[2] = [path |-> <<"nodes", "nodes">>, alias |-> Alias("nodes", 2)]

====
